---- MODULE Spec2Model ----
(***************************************************************************)
(* A model of the catalog build of catalog.1fpga.cloud:                    *)
(*   - the tree transformer `copy` (build script, part_007 lines 46-123),  *)
(*   - the catalog version propagator (buildCores / buildSystems /         *)
(*     buildReleases and the final stamp, part_007 lines 130-334),         *)
(*   - the relational ingestion of a game list (part_005, `build`).        *)
(* Each part has its own specification (SpecCopy, SpecProp, SpecIngest)    *)
(* over the shared variables; a specification leaves the variables of the  *)
(* other parts at their idle values.                                       *)
(***************************************************************************)
EXTENDS Integers, Sequences, FiniteSets, TLC

VARIABLES
    \* ---- tree transformer ----
    fs,         \* the file system: absolute path -> node
    stack,      \* the active copy() invocations that await a nested call
    call,       \* the copy() invocation about to run, or NoCall
    reads,      \* real locations whose content copy() has read
    cstatus,    \* "running" | "copied" | "failed" | "idle"
    failure     \* why the run failed, and what the rejected request had created

copyVars == <<fs, stack, call, reads, cstatus, failure>>

VARIABLES
    \* ---- catalog version propagator ----
    pc,             \* the step of the main script the run is at
    catalog,        \* the catalog object parsed at line 322
    coresData,      \* buildCores: the entries of cores.json, in order
    systemsData,    \* buildSystems: the entries of systems.json, in order
    idx,            \* the entry the current loop is at
    latest,         \* latestCoresVersion / latestSystemsVersion
    cData,          \* the core document of the last iteration
    sData,          \* the system document of the last iteration
    releasesData,   \* buildReleases: the channels of the releases document
    disk,           \* the artifacts the current document's urls point to
    written,        \* the documents written so far
    prev,           \* the versions stamped before the current step
    badShipped      \* passes that wrote a manifest listing a file whose
                    \* .sig exists and does not verify

propVars == <<pc, catalog, coresData, systemsData, idx, latest, cData, sData,
              releasesData, disk, written, prev, badShipped>>

VARIABLES
    ipc,            \* the statement of `build` the ingestion is at
    system,         \* the system metadata object parsed at line 152
    gamesDb,        \* the game list parsed at line 172
    sqlDb,          \* the tables as the open connection sees them
    durable,        \* the tables as stored in the database file
    inTx,           \* whether a transaction is open
    gi,             \* the index of the game being ingested
    gamesId,        \* the id of its GamesId row
    phase,          \* which Promise.all of the game is in flight
    tasks,          \* the callbacks of that Promise.all
    events          \* what the connection was asked so far, in order

ingestVars == <<ipc, system, gamesDb, sqlDb, durable, inTx, gi, gamesId, phase, tasks,
                events>>

VARIABLES
    \* ---- compareVersions and maxVersion on their own ----
    vpc,            \* "input" | "compared" | "folded" | "permuted" | "idle"
    vlist,          \* the argument list
    outcome,        \* how the call on `vlist` ended
    permuted,       \* a permutation of `vlist`
    again           \* how the call on `permuted` ended

versionVars == <<vpc, vlist, outcome, permuted, again>>

VARIABLES
    \* ---- the three passes run twice on one tree ----
    tpc,            \* the pass that runs next: "cores" | "systems" | "releases" | "done" | "idle"
    run,            \* 1 or 2
    tree,           \* catalog.json, the manifests and the artifacts on disk
    first           \* the tree as the first run left it

twiceVars == <<tpc, run, tree, first>>

vars == <<copyVars, propVars, ingestVars, versionVars, twiceVars>>

\* What each part leaves alone.
notCopy == <<propVars, ingestVars, versionVars, twiceVars>>
notProp == <<copyVars, ingestVars, versionVars, twiceVars>>
notIngest == <<copyVars, propVars, versionVars, twiceVars>>
notVersions == <<copyVars, propVars, ingestVars, twiceVars>>
notTwice == <<copyVars, propVars, ingestVars, versionVars>>

(***************************************************************************)
(* Bounds of the model.                                                    *)
(***************************************************************************)
MaxOverrideOps == 2     \* requests one build override issues
MaxDepth == 4           \* nesting of copy() invocations explored
MaxList == 3            \* length of the lists given to maxVersion
LinkFuel == 3           \* symbolic links followed while resolving one path
MaxVer == 2             \* versions "1" .. MaxVer appear in the documents
MaxGames == 2           \* games in the ingested game list

(***************************************************************************)
(* Paths.  A file name is a sequence of parts, the extension being the     *)
(* last part ("a.toml" is <<"a", ".toml">>); a path string is an            *)
(* absolute flag and a sequence of names; an absolute resolved path is a   *)
(* sequence of names from the file system root.                            *)
(***************************************************************************)
N(s) == <<s>>
NE(s, e) == <<s, e>>
DotDot == N("..")
Dot == N(".")

RelP(segs) == [abs |-> FALSE, segs |-> segs]
AbsP(segs) == [abs |-> TRUE, segs |-> segs]

ROOT == <<N("r")>>
SOURCE_ROOT == ROOT \o <<N("files")>>
DIST_ROOT == ROOT \o <<N("dist")>>
BuildJs == NE("_build", ".js")

IsPrefix(a, b) == Len(a) <= Len(b) /\ SubSeq(b, 1, Len(a)) = a

DropLast(p) == SubSeq(p, 1, Len(p) - 1)

\* path.normalize on a sequence of names.
RECURSIVE NormAcc(_, _, _)
NormAcc(acc, rest, abs) ==
    IF rest = <<>> THEN acc
    ELSE LET h == Head(rest) IN
         IF h = Dot THEN NormAcc(acc, Tail(rest), abs)
         ELSE IF h = DotDot
              THEN IF Len(acc) > 0 /\ acc[Len(acc)] # DotDot
                   THEN NormAcc(DropLast(acc), Tail(rest), abs)
                   ELSE IF abs THEN NormAcc(acc, Tail(rest), abs)
                        ELSE NormAcc(Append(acc, DotDot), Tail(rest), abs)
              ELSE NormAcc(Append(acc, h), Tail(rest), abs)

Normalize(segs, abs) == NormAcc(<<>>, segs, abs)

\* path.join(a, b) for a non-empty string a: the result is absolute iff a is.
Join(a, b) == [abs |-> a.abs, segs |-> Normalize(a.segs \o b.segs, a.abs)]

\* path.resolve(base, p) for an absolute base.
Resolve(base, p) ==
    IF p.abs THEN Normalize(p.segs, TRUE) ELSE Normalize(base \o p.segs, TRUE)

\* path.dirname of an absolute path.
Dirname(p) == IF p = <<>> THEN <<>> ELSE DropLast(p)

RECURSIVE CommonLen(_, _)
CommonLen(a, b) ==
    IF a = <<>> \/ b = <<>> \/ Head(a) # Head(b) THEN 0
    ELSE 1 + CommonLen(Tail(a), Tail(b))

\* path.relative(from, to) for absolute normalized paths.
Relative(from, to) ==
    LET c == CommonLen(from, to) IN
    RelP([i \in 1..(Len(from) - c) |-> DotDot] \o SubSeq(to, c + 1, Len(to)))

\* path.extname of a name, and path.basename(name, '.toml') + '.json'.
Extname(n) == IF Len(n) >= 2 THEN n[Len(n)] ELSE ""
\* A variant that keeps the name of the source.
KeepsName(n) == n
TomlToJsonName(n) ==
    (IF Extname(n) = ".toml" THEN DropLast(n) ELSE n) \o <<".json">>

\* `source.startsWith('..')`: no name of the model other than ".." itself
\* begins with two dots.
StartsWithDotDot(p) == Len(p.segs) > 0 /\ p.segs[1] = DotDot

(***************************************************************************)
(* The file system.  A node is a directory, a regular file with its        *)
(* content, or a symbolic link with its target string.  A file's content   *)
(* is a text in some format (fmt) that denotes a document (val), pretty    *)
(* printed or compact (ws).                                                *)
(***************************************************************************)
NoData == [fmt |-> "none", val |-> "", ws |-> FALSE]
DirNode == [kind |-> "dir", target |-> RelP(<<>>), data |-> NoData]
FileNode(d) == [kind |-> "file", target |-> RelP(<<>>), data |-> d]
LinkNode(t) == [kind |-> "link", target |-> t, data |-> NoData]
Text(fmt, val) == [fmt |-> fmt, val |-> val, ws |-> TRUE]

Put(f, p, node) == [q \in DOMAIN f \cup {p} |-> IF q = p THEN node ELSE f[q]]

\* The marker of a path that does not resolve (ENOENT, ENOTDIR, ELOOP).
NoPath == <<N("!")>>

\* The real location of `rest` below the real directory `cur`, following the
\* symbolic links of every component but, unless followLast, the last one.
RECURSIVE Walk(_, _, _, _, _)
Walk(f, cur, rest, followLast, fuel) ==
    IF rest = <<>> THEN cur
    ELSE LET h == Head(rest)
             cand == Append(cur, h)
             last == Len(rest) = 1
         IN IF h = DotDot THEN Walk(f, Dirname(cur), Tail(rest), followLast, fuel)
            ELSE IF h = Dot THEN Walk(f, cur, Tail(rest), followLast, fuel)
            ELSE IF cand \notin DOMAIN f THEN (IF last THEN cand ELSE NoPath)
            ELSE IF f[cand].kind = "link" /\ (~last \/ followLast)
                 THEN IF fuel = 0 THEN NoPath
                      ELSE Walk(f, IF f[cand].target.abs THEN <<>> ELSE cur,
                                f[cand].target.segs \o Tail(rest), followLast, fuel - 1)
            ELSE IF ~last /\ f[cand].kind # "dir" THEN NoPath
            ELSE Walk(f, cand, Tail(rest), followLast, fuel)

\* fs.lstat(p): the location of the node itself, links in the way followed.
LstatLoc(f, p) == Walk(f, <<>>, p, FALSE, LinkFuel)
\* fs.access(p), fs.readFile(p): the location after every link.
RealLoc(f, p) == Walk(f, <<>>, p, TRUE, LinkFuel)
Exists(f, loc) == loc # NoPath /\ loc \in DOMAIN f

\* The entries glob(dir + '/*') lists in the directory at real location loc.
Children(f, loc) ==
    {p[Len(p)] : p \in {q \in DOMAIN f : Len(q) = Len(loc) + 1 /\ IsPrefix(loc, q)}}

Prefixes(p) == {SubSeq(p, 1, i) : i \in 0..Len(p)}

\* fs.mkdir(p, {recursive: true}) on the destination side, whose paths hold
\* no symbolic link: fails when a component exists and is no directory.
MkdirPOk(f, p) == \A q \in Prefixes(p) : q \in DOMAIN f => f[q].kind = "dir"
MkdirPMade(f, p) == {q \in Prefixes(p) : q \notin DOMAIN f}
MkdirP(f, p) == [q \in DOMAIN f \cup Prefixes(p) |-> IF q \in DOMAIN f THEN f[q] ELSE DirNode]

\* fs.mkdir(p): fails when p exists or its parent is no directory.
MkdirOk(f, p) ==
    /\ p \notin DOMAIN f
    /\ Dirname(p) \in DOMAIN f /\ f[Dirname(p)].kind = "dir"

\* fs.writeFile(p, data), fs.cp(file, p): fail when p is a directory or the
\* parent is missing; an existing file is overwritten.
WriteOk(f, p) ==
    /\ p # <<>>
    /\ Dirname(p) \in DOMAIN f /\ f[Dirname(p)].kind = "dir"
    /\ p \in DOMAIN f => f[p].kind = "file"

\* JSON.stringify(toml.parse(text)) and JSON.stringify(JSON.parse(text)).
ParsesAs(d, fmt) == d.fmt = fmt /\ d.val # "invalid"
Stringify(d) == [fmt |-> "json", val |-> d.val, ws |-> FALSE]

(***************************************************************************)
(* copy(source, dest): part_007 lines 46-123.                              *)
(***************************************************************************)
NoDest == [def |-> FALSE, p |-> RelP(<<>>)]
DestOf(p) == [def |-> TRUE, p |-> p]
NoCall == [active |-> FALSE, source |-> RelP(<<>>), dest |-> NoDest]
Call(source, dest) == [active |-> TRUE, source |-> source, dest |-> dest]

NoFrame == [kind |-> "none", source |-> RelP(<<>>), sourcePath |-> <<>>,
            destPath |-> <<>>, pending |-> {}, ops |-> 0, made |-> {},
            asked |-> {}, wrote |-> FALSE]
Frame(kind, source, sourcePath, destPath, pending, made) ==
    [kind |-> kind, source |-> source, sourcePath |-> sourcePath,
     destPath |-> destPath, pending |-> pending, ops |-> 0, made |-> made,
     asked |-> {}, wrote |-> FALSE]

Res(out, f, rd, frame, next) ==
    [out |-> out, fs |-> f, reads |-> rd, frame |-> frame, next |-> next]

\* Lines 47-49: the guard on the source string.
SourceRejected(source) == source.abs \/ StartsWithDotDot(source)

\* Lines 97-119: a plain file, dispatched on the extension of sourcePath.
CopyFile(f, rd, loc, sourcePath, destPath) ==
    LET ext == Extname(sourcePath[Len(sourcePath)])
        data == f[loc].data
    IN CASE ext = ".toml" ->
              LET dest == Append(Dirname(destPath), TomlToJsonName(destPath[Len(destPath)]))
              IN IF ParsesAs(data, "toml") /\ WriteOk(f, dest)
                 THEN Res("file", Put(f, dest, FileNode(Stringify(data))), rd \cup {loc}, NoFrame, NoCall)
                 ELSE Res("io", f, rd \cup {loc}, NoFrame, NoCall)
         [] ext = ".md" -> Res("file", f, rd, NoFrame, NoCall)
         [] ext = ".json" ->
              IF ParsesAs(data, "json") /\ WriteOk(f, destPath)
              THEN Res("file", Put(f, destPath, FileNode(Stringify(data))), rd \cup {loc}, NoFrame, NoCall)
              ELSE Res("io", f, rd \cup {loc}, NoFrame, NoCall)
         [] OTHER ->
              IF WriteOk(f, destPath)
              THEN Res("file", Put(f, destPath, FileNode(data)), rd \cup {loc}, NoFrame, NoCall)
              ELSE Res("io", f, rd \cup {loc}, NoFrame, NoCall)

\* A variant that runs the override and copies the directory's plain files
\* as well.
CopyDirAndOverride(f, rd, loc, source, sourcePath, destPath, made) ==
    LET buildLoc == RealLoc(f, Append(sourcePath, BuildJs))
        files == {n \in Children(f, loc) : f[Append(loc, n)].kind = "file"}
    IN
    IF Exists(f, buildLoc)
    THEN IF MkdirOk(f, destPath)
         THEN Res("override",
                  [q \in DOMAIN f \cup {destPath} \cup {Append(destPath, n) : n \in files} |->
                      IF q = destPath THEN DirNode
                      ELSE IF q \in DOMAIN f THEN f[q]
                      ELSE f[Append(loc, q[Len(q)])]],
                  rd \cup {buildLoc},
                  Frame("override", source, sourcePath, destPath, {}, made \cup {destPath}),
                  NoCall)
         ELSE Res("io", f, rd, NoFrame, NoCall)
    ELSE Res("dir", f, rd \cup {loc},
             Frame("dir", source, sourcePath, destPath, Children(f, loc), made), NoCall)

\* Lines 63-96: a directory, with or without a build override.
CopyDir(f, rd, loc, source, sourcePath, destPath, made) ==
    LET buildLoc == RealLoc(f, Append(sourcePath, BuildJs)) IN
    IF Exists(f, buildLoc)
    THEN IF MkdirOk(f, destPath)
         THEN Res("override", Put(f, destPath, DirNode), rd \cup {buildLoc},
                  Frame("override", source, sourcePath, destPath, {}, made \cup {destPath}), NoCall)
         ELSE Res("io", f, rd, NoFrame, NoCall)
    ELSE Res("dir", f, rd \cup {loc},
             Frame("dir", source, sourcePath, destPath, Children(f, loc), made), NoCall)

\* Lines 46-62: the guard, the two paths, the parent directory, lstat and the
\* symbolic link; then the directory or the file.
CopyBody(c, f, rd) ==
    IF SourceRejected(c.source) THEN Res("sandbox", f, rd, NoFrame, NoCall)
    ELSE LET sourcePath == Resolve(SOURCE_ROOT, c.source)
             destPath == IF c.dest.def THEN Resolve(DIST_ROOT, c.dest.p)
                         ELSE Join(AbsP(DIST_ROOT), c.source).segs
             parent == Dirname(destPath)
         IN IF ~MkdirPOk(f, parent) THEN Res("io", f, rd, NoFrame, NoCall)
            ELSE LET f1 == MkdirP(f, parent)
                     made == MkdirPMade(f, parent)
                     loc == LstatLoc(f1, sourcePath)
                 IN IF ~Exists(f1, loc) THEN Res("io", f1, rd, NoFrame, NoCall)
                    ELSE CASE f1[loc].kind = "link" ->
                                LET link == Resolve(Dirname(sourcePath), f1[loc].target)
                                IN Res("link", f1, rd \cup {loc},
                                       Frame("link", c.source, sourcePath, destPath, {}, made),
                                       Call(Relative(SOURCE_ROOT, link), DestOf(AbsP(destPath))))
                           [] f1[loc].kind = "dir" ->
                                CopyDir(f1, rd, loc, c.source, sourcePath, destPath, made)
                           [] OTHER -> CopyFile(f1, rd, loc, sourcePath, destPath)

\* Lines 76-80: the helper bound to an override's directory.
CopyFn(frame, src, maybeDest) ==
    Call(Join(frame.source, src),
         IF maybeDest.def THEN maybeDest
         ELSE DestOf(Join(AbsP(frame.destPath), src)))

(***************************************************************************)
(* The source trees the transformer is run on, and what an override asks.  *)
(***************************************************************************)
Outside == <<N("o")>>
OutsideFile == Outside \o <<N("p")>>
SubDir == SOURCE_ROOT \o <<N("d")>>

BaseTree ==
    (<<>> :> DirNode) @@ (Outside :> DirNode) @@ (OutsideFile :> FileNode(Text("bin", "P")))
    @@ (ROOT :> DirNode) @@ (SOURCE_ROOT :> DirNode)
    @@ (Append(SOURCE_ROOT, NE("c", ".json")) :> FileNode(Text("json", "C")))
    @@ (Append(SOURCE_ROOT, NE("a", ".toml")) :> FileNode(Text("toml", "A")))
    @@ (SubDir :> DirNode)
    @@ (Append(SubDir, N("s")) :> FileNode(Text("bin", "S")))
    @@ (Append(SubDir, NE("g", ".md")) :> FileNode(Text("md", "G")))

\* The optional nodes: a link at the top of the tree, a link inside the
\* subdirectory, the subdirectory's build override, a JSON sibling of a.toml.
TopLinkTargets ==
    {RelP(<<N("d")>>), RelP(<<N("l")>>), RelP(<<DotDot, DotDot, N("o"), N("p")>>),
     AbsP(OutsideFile)}
SubLinkTargets == {AbsP(Outside), RelP(<<N("s")>>)}

WithNode(f, present, p, node) == IF present THEN Put(f, p, node) ELSE f

TopLinks == {[on |-> TRUE, t |-> t] : t \in TopLinkTargets} \cup {[on |-> FALSE, t |-> RelP(<<>>)]}
SubLinks == {[on |-> TRUE, t |-> t] : t \in SubLinkTargets} \cup {[on |-> FALSE, t |-> RelP(<<>>)]}
TreeOptions ==
    {o \in [top : TopLinks, sub : SubLinks, ovr : {"", "build", "out"}, aj : BOOLEAN] :
        /\ o.aj => ~o.top.on /\ ~o.sub.on
        /\ o.ovr = "out" => ~o.top.on /\ ~o.sub.on /\ ~o.aj}

SourceTrees ==
    {WithNode(WithNode(WithNode(WithNode(BaseTree,
        o.top.on, Append(SOURCE_ROOT, N("l")), LinkNode(o.top.t)),
        o.sub.on, Append(SubDir, N("k")), LinkNode(o.sub.t)),
        o.ovr # "", Append(SubDir, BuildJs), FileNode(Text("js", o.ovr))),
        o.aj, Append(SOURCE_ROOT, NE("a", ".json")), FileNode(Text("json", "J"))) :
     o \in TreeOptions}

OverrideSrcs ==
    {RelP(<<N("s")>>), RelP(<<N("k")>>), RelP(<<N("k"), N("p")>>),
     RelP(<<N("a"), DotDot, DotDot, N("l")>>), RelP(<<DotDot, DotDot, N("o"), N("p")>>)}
OverrideDests == {NoDest, DestOf(RelP(<<N("y")>>))}
\* Destinations that leave dist/: one relative with '..', one absolute.
EscapingDests == {DestOf(RelP(<<DotDot, N("e")>>)), DestOf(AbsP(Outside \o <<N("q")>>))}
\* What an override asks of the bound helper depends on its script: "build"
\* copies into its destination, "out" copies its plain file elsewhere.
OverrideAsks(script) ==
    IF script = "out" THEN {RelP(<<N("s")>>)} \X ({NoDest} \cup EscapingDests)
    ELSE OverrideSrcs \X OverrideDests
OverrideOutput == NE("db", ".zip")

NoFailure == [kind |-> "none", made |-> {}]

InitCopy ==
    /\ fs \in SourceTrees
    /\ stack = <<>>
    /\ call = Call(RelP(<<>>), NoDest)      \* line 318: await copy('.')
    /\ reads = {}
    /\ cstatus = "running"
    /\ failure = NoFailure

Top == stack[Len(stack)]
Pop == SubSeq(stack, 1, Len(stack) - 1)
SetTop(fr) == [stack EXCEPT ![Len(stack)] = fr]

\* What the destination tree holds of the directories a request created.
UnderDist(ps) == {q \in ps : IsPrefix(DIST_ROOT, q) /\ q # DIST_ROOT}

\* One invocation of copy() runs up to its nested call or its return.  An
\* exception (the guard, an I/O error) ends the run: it is either uncaught
\* or, inside an override, caught by lines 84-86 which exit.
CopyEnter ==
    /\ cstatus = "running" /\ call.active /\ Len(stack) < MaxDepth
    /\ LET r == CopyBody(call, fs, reads) IN
       /\ fs' = r.fs
       /\ reads' = r.reads
       /\ call' = r.next
       /\ IF r.out \in {"sandbox", "io"}
          THEN /\ cstatus' = "failed"
               /\ stack' = stack
               /\ failure' = [kind |-> r.out,
                              made |-> IF r.out = "sandbox" /\ stack # <<>> /\ Top.kind = "link"
                                       THEN Top.made ELSE {}]
          ELSE /\ stack' = IF r.out = "file" THEN stack ELSE Append(stack, r.frame)
               /\ cstatus' = IF r.out = "file" /\ stack = <<>> THEN "copied" ELSE "running"
               /\ failure' = failure
    /\ UNCHANGED notCopy

\* Lines 92-95: the next child of a directory, in the order glob gives.
DirNext ==
    /\ cstatus = "running" /\ ~call.active /\ stack # <<>>
    /\ Top.kind = "dir" /\ Top.pending # {}
    /\ \E n \in Top.pending :
         LET fPath == Append(Top.sourcePath, n) IN
         /\ call' = Call(Relative(SOURCE_ROOT, fPath),
                         DestOf(Join(AbsP(Top.destPath), Relative(Top.sourcePath, fPath))))
         /\ stack' = SetTop([Top EXCEPT !.pending = @ \ {n}])
    /\ UNCHANGED <<fs, reads, cstatus, failure, notCopy>>

\* Line 122: a directory whose children are done, or a link whose target is.
CopyReturn ==
    /\ cstatus = "running" /\ ~call.active /\ stack # <<>>
    /\ \/ Top.kind = "dir" /\ Top.pending = {}
       \/ Top.kind = "link"
    /\ stack' = Pop
    /\ cstatus' = IF Len(stack) = 1 THEN "copied" ELSE "running"
    /\ UNCHANGED <<fs, call, reads, failure, notCopy>>

\* Line 83: the override asks the bound helper for a copy.
OverrideCopy ==
    /\ cstatus = "running" /\ ~call.active /\ stack # <<>>
    /\ Top.kind = "override" /\ Top.ops < MaxOverrideOps
    /\ \E ask \in OverrideAsks(fs[Append(Top.sourcePath, BuildJs)].data.val) :
         /\ call' = CopyFn(Top, ask[1], ask[2])
         /\ stack' = SetTop([Top EXCEPT !.ops = @ + 1, !.asked = @ \cup {call'}])
    /\ UNCHANGED <<fs, reads, cstatus, failure, notCopy>>

\* Line 83: the override writes a file of its own into its destination.
OverrideWrite ==
    /\ cstatus = "running" /\ ~call.active /\ stack # <<>>
    /\ Top.kind = "override" /\ Top.ops < MaxOverrideOps
    /\ WriteOk(fs, Append(Top.destPath, OverrideOutput))
    /\ fs' = Put(fs, Append(Top.destPath, OverrideOutput), FileNode(Text("bin", "Z")))
    /\ stack' = SetTop([Top EXCEPT !.ops = @ + 1, !.wrote = TRUE])
    /\ UNCHANGED <<call, reads, cstatus, failure, notCopy>>

\* Lines 83, 87-89: the override returns.
OverrideReturn ==
    /\ cstatus = "running" /\ ~call.active /\ stack # <<>>
    /\ Top.kind = "override"
    /\ stack' = Pop
    /\ cstatus' = IF Len(stack) = 1 THEN "copied" ELSE "running"
    /\ UNCHANGED <<fs, call, reads, failure, notCopy>>

\* A catch that logs the error and lets copy return.
OverrideSwallowed ==
    /\ cstatus = "running" /\ ~call.active /\ stack # <<>>
    /\ Top.kind = "override"
    /\ stack' = Pop
    /\ cstatus' = IF Len(stack) = 1 THEN "copied" ELSE "running"
    /\ failure' = [kind |-> "override", made |-> {}]
    /\ UNCHANGED <<fs, call, reads, notCopy>>

\* Lines 84-86: the override throws; the build exits with status 1.
OverrideThrow ==
    /\ cstatus = "running" /\ ~call.active /\ stack # <<>>
    /\ Top.kind = "override"
    /\ cstatus' = "failed"
    /\ failure' = [kind |-> "override", made |-> {}]
    /\ UNCHANGED <<fs, stack, call, reads, notCopy>>

NextCopy ==
    \/ CopyEnter
    \/ DirNext
    \/ CopyReturn
    \/ OverrideCopy
    \/ OverrideWrite
    \/ OverrideReturn
    \/ OverrideThrow


(***************************************************************************)
(* Claims about the tree transformer.                                      *)
(***************************************************************************)

\* C1: every location copy() reads content from (a file it reads or copies,
\* a link it reads, a directory it lists, an override it loads) lies inside
\* the source root; a request that would read elsewhere throws instead.
C1_ReadsInsideSourceRoot == \A loc \in reads : IsPrefix(SOURCE_ROOT, loc)

\* C2: when a copy request is rejected as escaping the root (its source
\* string is absolute or starts with '..', or it is a symbolic link whose
\* resolved target is outside the root), that request has created no
\* directory and written no file under the destination tree.
C2_SandboxViolationWritesNothing ==
    (cstatus = "failed" /\ failure.kind = "sandbox") => UnderDist(failure.made) = {}

\* The destination path of a copy an override asked for (line 52).
AskedDest(c) == Resolve(DIST_ROOT, c.dest.p)
Overrides == {i \in 1..Len(stack) : stack[i].kind = "override"}
Below(dir) == {q \in DOMAIN fs : IsPrefix(dir, q) /\ q # dir}

\* C13: while the override of a directory runs, and up to its return, the
\* directory's destination holds only what the override wrote itself or
\* asked the bound helper to copy (the destination of such a copy, what is
\* below it and the directories above it); a child the override did not ask
\* for is absent.
C13_OnlyWhatTheOverrideWrote ==
    \A i \in Overrides :
        \A q \in Below(stack[i].destPath) :
            \/ stack[i].wrote /\ q = Append(stack[i].destPath, OverrideOutput)
            \/ \E c \in stack[i].asked :
                  IsPrefix(q, AskedDest(c)) \/ IsPrefix(AskedDest(c), q)
C13_ChildNotCopiedIsAbsent ==
    /\ cstatus = "running" /\ ~call.active /\ stack # <<>>
    /\ Top.kind = "override" /\ Top.ops >= 2 /\ Top.wrote
    /\ Append(Top.sourcePath, N("k")) \in DOMAIN fs
    /\ Append(Top.destPath, N("s")) \in DOMAIN fs
    /\ Append(Top.destPath, N("k")) \notin DOMAIN fs
    /\ Append(Top.destPath, BuildJs) \notin DOMAIN fs

\* C15: while a directory without an override is copied, no file already
\* written to the distribution is rewritten with other contents by the
\* copy of a sibling, so the tree does not depend on the order of the
\* children.
C15_NoSiblingOverwrites ==
    [][(cstatus = "running" /\ Overrides = {}) =>
          \A q \in DOMAIN fs :
              (IsPrefix(DIST_ROOT, q) /\ fs[q].kind = "file") => fs'[q] = fs[q]]_vars

\* C26: every file or directory a step of the copy creates or rewrites is
\* dist/ or below it, also when an override names the destination itself.
C26_WritesOnlyInsideDist ==
    [][\A q \in DOMAIN fs' :
          (q \notin DOMAIN fs \/ fs'[q] # fs[q]) => IsPrefix(DIST_ROOT, q)]_vars

\* A request for a link that was entered from inside the same request: the
\* same source and destination, and nothing created in between, so that
\* the inner invocation finds what the outer one found and asks again.
Reentered(i) ==
    /\ stack[i].kind = "link" /\ stack[i + 1].kind = "link"
    /\ stack[i + 1].source = stack[i].source
    /\ stack[i + 1].sourcePath = stack[i].sourcePath
    /\ stack[i + 1].destPath = stack[i].destPath
    /\ stack[i + 1].made = {}

\* C27: copy ends, by a return or a failure, on every tree of directories
\* and links; in particular no request for a link is entered again from
\* inside itself, which is a recursion without an end.
C27_NoRequestInsideItself == \A i \in 1..(Len(stack) - 1) : ~Reentered(i)

(***************************************************************************)
(* JavaScript values of the propagator.  A string is its sequence of       *)
(* characters; a number is an integer or NaN.                              *)
(***************************************************************************)
Undefined == [t |-> "undefined"]
Str(chars) == [t |-> "string", s |-> chars]
NaN == [nan |-> TRUE, n |-> 0]
Number(n) == [nan |-> FALSE, n |-> n]

DigitChars == <<"0", "1", "2", "3", "4", "5", "6", "7", "8", "9">>
IsDigit(c) == \E i \in 1..Len(DigitChars) : DigitChars[i] = c
DigitOf(c) == (CHOOSE i \in 1..Len(DigitChars) : DigitChars[i] = c) - 1

RECURSIVE DigitsValue(_)
DigitsValue(chars) ==
    IF chars = <<>> THEN 0
    ELSE DigitsValue(DropLast(chars)) * 10 + DigitOf(chars[Len(chars)])

\* The unary plus of line 174 on an absent field or a string of the model.
ToNumber(v) ==
    IF v.t = "string" /\ \A i \in 1..Len(v.s) : IsDigit(v.s[i])
    THEN Number(DigitsValue(v.s)) ELSE NaN

\* `a ?? b`.
Coalesce(a, b) == IF a = Undefined THEN b ELSE a
Zero == Str(<<"0">>)

\* Lines 173-175.
compareVersions(a, b) ==
    LET x == ToNumber(a)
        y == ToNumber(b)
    IN IF x.nan \/ y.nan THEN NaN ELSE Number(x.n - y.n)

\* `x > 0` on a number: false for NaN.
Positive(x) == ~x.nan /\ x.n > 0

\* A variant whose reducer always keeps the later element.
lastVersion(versions) == versions[Len(versions)]

\* Lines 180-182: reduce without an initial value, over a non-empty list.
RECURSIVE MaxFold(_, _)
MaxFold(a, rest) ==
    IF rest = <<>> THEN a
    ELSE MaxFold(IF Positive(compareVersions(a, Head(rest))) THEN a ELSE Head(rest),
                 Tail(rest))

maxVersion(versions) == MaxFold(Head(versions), Tail(versions))

(***************************************************************************)
(* The integrity verifier: lines 130-135 and 147-164.  A digest is         *)
(* deterministic and collision free; a signature verifies exactly when it  *)
(* is the signature of the data under the embedded key.                    *)
(***************************************************************************)
Sha256Hex(bytes) == [t |-> "hex", of |-> bytes]
Sign(bytes) == [signed |-> bytes]
Verify(data, sig) == sig = Sign(data)
Base64(sig) == [t |-> "base64", of |-> sig]

NoSig == [present |-> FALSE, bytes |-> Sign(<<>>)]
SigFile(sig) == [present |-> TRUE, bytes |-> sig]
Artifact(bytes, sig) == [exists |-> TRUE, bytes |-> bytes, sig |-> sig]
Missing == [exists |-> FALSE, bytes |-> <<>>, sig |-> NoSig]

\* A variant that reports the size and the digest of no bytes at all.
DigestOfNothing(a) == <<0, Sha256Hex(<<>>)>>

\* Lines 130-135: throws when the file is missing.
calculateSizeAndSha256(a) == <<Len(a.bytes), Sha256Hex(a.bytes)>>

\* A variant that accepts every .sig.
AcceptsAnySig(a) == FALSE

\* Lines 147-164: null without a .sig, the base64 of a .sig that verifies;
\* SignatureThrows when the .sig does not verify.
SignatureThrows(a) == a.sig.present /\ ~Verify(a.bytes, a.sig.bytes)
calculateSignature(a) == IF ~a.sig.present THEN Undefined ELSE Base64(a.sig.bytes)

BadSig(a) == a.exists /\ SignatureThrows(a)

\* A file entry of a manifest.
FileEntry(url, size, sha256, signature) ==
    [url |-> url, size |-> size, sha256 |-> sha256, signature |-> signature]

\* A variant that adds the size found to the size already recorded.
RehashAdding(f, d) ==
    LET h == calculateSizeAndSha256(d[f.url])
    IN [f EXCEPT !.size = @ + h[1], !.sha256 = h[2]]

\* Lines 205-207, 241-243, 252-254, 292-294: size and sha256 restamped.
Rehash(f, d) ==
    LET h == calculateSizeAndSha256(d[f.url])
    IN [f EXCEPT !.size = h[1], !.sha256 = h[2]]

\* A variant that never deletes the field.
ResignKeeping(f, d) ==
    LET signature == calculateSignature(d[f.url])
    IN IF signature = Undefined THEN f ELSE [f EXCEPT !.signature = signature]

\* Lines 296-301: the signature field set, or deleted.
Resign(f, d) ==
    LET signature == calculateSignature(d[f.url])
    IN IF signature = Undefined THEN [f EXCEPT !.signature = Undefined]
       ELSE [f EXCEPT !.signature = signature]

(***************************************************************************)
(* The documents and artifacts the propagator is run on.  Every url of a   *)
(* document is relative to the document's own directory, so each document  *)
(* comes with the artifacts its urls point to.                             *)
(***************************************************************************)
Versions == {Undefined} \cup {Str(<<DigitChars[n + 1]>>) : n \in 1..MaxVer}

NoDoc == [none |-> TRUE]
NoDisk == <<>>
Absent == [present |-> FALSE]

BytesA == <<1>>
BytesB == <<1, 2>>
Unsigned(bytes) == Artifact(bytes, NoSig)
WellSigned(bytes) == Artifact(bytes, SigFile(Sign(bytes)))
BadlySigned(bytes) == Artifact(bytes, SigFile(Sign(<<>>)))

\* What a source manifest carries before the build: stale values.
StaleFile(url, signature) == FileEntry(url, 0, Sha256Hex(<<>>), signature)
StaleSignature == Base64(Sign(<<>>))

Catalog(c, y, r) ==
    [version |-> Undefined, cores |-> [version |-> c], systems |-> [version |-> y],
     releases |-> [version |-> r]]
\* A cores version stamped with a date later than the build dates.
LaterStamp == Str(<<"2", "0", "2", "6", "1", "2", "3", "1">>)
Catalogs ==
    {Catalog(v, Undefined, Undefined) : v \in Versions \cup {LaterStamp}}
    \cup {Catalog(Undefined, v, Undefined) : v \in Versions}
    \cup {Catalog(Undefined, Undefined, v) : v \in Versions}

\* cores.json / systems.json: one or two entries, each with its cached version.
EntryLists ==
    {<<[version |-> a]>> : a \in Versions}
    \cup {<<[version |-> a], [version |-> b]>> :
              a \in Versions, b \in {Undefined, Str(<<"1">>)}}

\* A core document: one or two releases; the first ships one file, the
\* second, when there, two.
CoreDocs ==
    {[releases |-> <<[version |-> v, files |-> <<StaleFile("f1", Undefined)>>]>>] :
        v \in Versions}
    \cup {[releases |-> <<[version |-> v, files |-> <<StaleFile("f1", Undefined)>>],
                         [version |-> w, files |-> <<StaleFile("f1", Undefined),
                                                     StaleFile("f2", Undefined)>>]>>] :
        v \in Versions, w \in Versions}
CoreDisks ==
    {("f1" :> a) @@ ("f2" :> Unsigned(BytesB)) :
        a \in {Unsigned(BytesA), BadlySigned(BytesA), Missing}}

\* A system document: its version, an optional gamesDb and an optional db.
Stamped(url, version) ==
    [present |-> TRUE, url |-> url, version |-> version, size |-> 0,
     sha256 |-> Sha256Hex(<<>>)]
SystemDocs ==
    {[version |-> v, gamesDb |-> g, db |-> b] :
        v \in Versions,
        g \in {Absent, Stamped("g", Undefined), Stamped("g", Str(<<"2">>))},
        b \in {Absent, Stamped("db", Str(<<"2">>))}}
SystemDisks ==
    {("g" :> a) @@ ("db" :> Unsigned(BytesB)) : a \in {Unsigned(BytesA), BadlySigned(BytesA)}}
    \cup {("g" :> Unsigned(BytesA)) @@ ("db" :> Missing)}

Array(items) == [t |-> "array", items |-> items]
Includes(a, x) == \E i \in 1..Len(a.items) : a.items[i] = x

\* The releases document: one or two channels, two version entries at most,
\* each with an optional tag list and one file.
ReleaseEntries(url, tags, signatures) ==
    {[version |-> v, tags |-> t, files |-> <<StaleFile(url, g)>>] :
        v \in Versions, t \in tags, g \in signatures}
Tagged == {Undefined, Array(<<"latest">>)}
ReleasesDocs ==
    {<<<<a>>>> : a \in ReleaseEntries("r1", Tagged, {Undefined, StaleSignature})}
    \cup {<<<<a, b>>>> : a \in ReleaseEntries("r1", Tagged, {Undefined, StaleSignature}),
                         b \in ReleaseEntries("r2", {Undefined}, {Undefined})}
    \cup {<<<<a>>, <<b>>>> : a \in ReleaseEntries("r1", Tagged, {Undefined}),
                             b \in ReleaseEntries("r2", {Undefined}, {Undefined})}
ReleasesDisks ==
    {("r1" :> a) @@ ("r2" :> b) :
        a \in {Unsigned(BytesA), WellSigned(BytesA), BadlySigned(BytesA)},
        b \in {WellSigned(BytesB), BadlySigned(BytesB)}}

(***************************************************************************)
(* buildCores: lines 189-218.                                              *)
(***************************************************************************)
Doc(name, n) == [doc |-> name, n |-> n]
NoPrev == [sub |-> Undefined, entry |-> Undefined, doc |-> Undefined]

AllReadable(files, d) == \A j \in 1..Len(files) : d[files[j].url].exists
AnyBadSig(files, d) == \E j \in 1..Len(files) : BadSig(d[files[j].url])

\* Line 202 over the releases of a document, from the entry's own version.
RECURSIVE CoreLatest(_, _)
CoreLatest(latestVersion, releases) ==
    IF releases = <<>> THEN latestVersion
    ELSE CoreLatest(maxVersion(<<latestVersion, Head(releases).version>>), Tail(releases))

\* Lines 203-208 over every release of a document.
CoreRehashed(cd, d) ==
    [releases |-> [i \in 1..Len(cd.releases) |->
        [cd.releases[i] EXCEPT !.files =
            [j \in 1..Len(cd.releases[i].files) |-> Rehash(cd.releases[i].files[j], d)]]]]

CoreReadable(cd, d) == \A i \in 1..Len(cd.releases) : AllReadable(cd.releases[i].files, d)
CoreBadSig(cd, d) == \E i \in 1..Len(cd.releases) : AnyBadSig(cd.releases[i].files, d)

\* Lines 190-192.
StartCores ==
    /\ pc = "cores"
    /\ coresData' \in EntryLists
    /\ latest' = Coalesce(catalog.cores.version, Zero)
    /\ prev' = [NoPrev EXCEPT !.sub = catalog.cores.version]
    /\ idx' = 1
    /\ pc' = "coreLoop"
    /\ UNCHANGED <<catalog, systemsData, cData, sData, releasesData, disk, written,
                   badShipped, notProp>>

\* Lines 194-214: one core.  A missing file makes line 205 throw, before
\* the core's document is written.
CoreStep ==
    /\ pc = "coreLoop" /\ idx <= Len(coresData) /\ cData = NoDoc
    /\ \E cd \in CoreDocs, d \in CoreDisks :
         /\ disk' = d
         /\ IF ~CoreReadable(cd, d)
            THEN /\ pc' = "failed"
                 /\ cData' = cd
                 /\ UNCHANGED <<coresData, idx, latest, written, prev, badShipped>>
            ELSE LET latestVersion == CoreLatest(Coalesce(coresData[idx].version, Zero),
                                                 cd.releases)
                 IN /\ cData' = CoreRehashed(cd, d)
                    /\ coresData' = [coresData EXCEPT ![idx].version = latestVersion]
                    /\ latest' = maxVersion(<<latest, latestVersion>>)
                    /\ written' = written \cup {Doc("core", idx)}
                    /\ prev' = [prev EXCEPT !.entry = coresData[idx].version]
                    /\ badShipped' = IF CoreBadSig(cd, d) THEN badShipped \cup {"cores"}
                                     ELSE badShipped
                    /\ UNCHANGED <<idx, pc>>
    /\ UNCHANGED <<catalog, systemsData, sData, releasesData, notProp>>

\* Line 194: on to the next core; cData is local to the loop body.
CoreNext ==
    /\ pc = "coreLoop" /\ cData # NoDoc
    /\ idx' = idx + 1
    /\ cData' = NoDoc /\ disk' = NoDisk
    /\ prev' = [prev EXCEPT !.entry = Undefined]
    /\ UNCHANGED <<pc, catalog, coresData, systemsData, latest, sData, releasesData,
                   written, badShipped, notProp>>

\* Lines 216-217.
FinishCores ==
    /\ pc = "coreLoop" /\ idx > Len(coresData) /\ cData = NoDoc
    /\ catalog' = [catalog EXCEPT !.cores.version = maxVersion(<<catalog.cores.version, latest>>)]
    /\ written' = written \cup {Doc("cores", 0)}
    /\ coresData' = <<>> /\ idx' = 0 /\ latest' = Undefined /\ prev' = NoPrev
    /\ pc' = "systems"
    /\ UNCHANGED <<systemsData, cData, sData, releasesData, disk, badShipped, notProp>>

(***************************************************************************)
(* buildSystems: lines 226-265.                                            *)
(***************************************************************************)
\* Line 229: systems.json maps system names to entries and has no entry
\* called "version".
OwnVersion(systems) == Undefined

Truthy(o) == o.present

\* Lines 239-248.
GamesDbStamped(sd, d) ==
    IF Truthy(sd.gamesDb)
    THEN LET h == calculateSizeAndSha256(d[sd.gamesDb.url])
         IN [sd EXCEPT !.gamesDb.size = h[1], !.gamesDb.sha256 = h[2]]
    ELSE sd

\* A variant that lets the db raise the version as the gamesDb does.
DbCountsToo(sd, latestVersion) ==
    LET withGamesDb ==
            IF Truthy(sd.gamesDb) /\ Positive(compareVersions(sd.gamesDb.version, latestVersion))
            THEN sd.gamesDb.version ELSE latestVersion
    IN IF Truthy(sd.db) /\ Positive(compareVersions(sd.db.version, withGamesDb))
       THEN sd.db.version ELSE withGamesDb
GamesDbVersion(sd, latestVersion) ==
    IF Truthy(sd.gamesDb) /\ Positive(compareVersions(sd.gamesDb.version, latestVersion))
    THEN sd.gamesDb.version ELSE latestVersion

\* Lines 250-255.
DbStamped(sd, d) ==
    IF Truthy(sd.db)
    THEN LET h == calculateSizeAndSha256(d[sd.db.url])
         IN [sd EXCEPT !.db.size = h[1], !.db.sha256 = h[2]]
    ELSE sd

SystemReadable(sd, d) ==
    /\ Truthy(sd.gamesDb) => d[sd.gamesDb.url].exists
    /\ Truthy(sd.db) => d[sd.db.url].exists
SystemBadSig(sd, d) ==
    \/ Truthy(sd.gamesDb) /\ BadSig(d[sd.gamesDb.url])
    \/ Truthy(sd.db) /\ BadSig(d[sd.db.url])

\* Lines 227-229.
StartSystems ==
    /\ pc = "systems"
    /\ systemsData' \in EntryLists
    /\ latest' = Coalesce(OwnVersion(systemsData'), Zero)
    /\ prev' = [NoPrev EXCEPT !.sub = catalog.systems.version]
    /\ idx' = 1
    /\ pc' = "systemLoop"
    /\ UNCHANGED <<catalog, coresData, cData, sData, releasesData, disk, written,
                   badShipped, notProp>>

\* Lines 231-260: one system.
SystemStep ==
    /\ pc = "systemLoop" /\ idx <= Len(systemsData) /\ sData = NoDoc
    /\ \E sd \in SystemDocs, d \in SystemDisks :
         /\ disk' = d
         /\ IF ~SystemReadable(sd, d)
            THEN /\ pc' = "failed"
                 /\ sData' = sd
                 /\ UNCHANGED <<systemsData, idx, latest, written, prev, badShipped>>
            ELSE LET s == systemsData[idx]
                     latestVersion ==
                         GamesDbVersion(sd, maxVersion(<<s.version, sd.version, Zero>>))
                 IN /\ sData' = [DbStamped(GamesDbStamped(sd, d), d)
                                    EXCEPT !.version = latestVersion]
                    /\ systemsData' = [systemsData EXCEPT ![idx].version = latestVersion]
                    /\ latest' = maxVersion(<<latest, latestVersion>>)
                    /\ written' = written \cup {Doc("system", idx)}
                    /\ prev' = [prev EXCEPT !.entry = s.version, !.doc = sd.version]
                    /\ badShipped' = IF SystemBadSig(sd, d) THEN badShipped \cup {"systems"}
                                     ELSE badShipped
                    /\ UNCHANGED <<idx, pc>>
    /\ UNCHANGED <<catalog, coresData, cData, releasesData, notProp>>

\* Line 231: on to the next system; sData is local to the loop body.
SystemNext ==
    /\ pc = "systemLoop" /\ sData # NoDoc
    /\ idx' = idx + 1
    /\ sData' = NoDoc /\ disk' = NoDisk
    /\ prev' = [prev EXCEPT !.entry = Undefined, !.doc = Undefined]
    /\ UNCHANGED <<pc, catalog, coresData, systemsData, latest, cData, releasesData,
                   written, badShipped, notProp>>

\* Lines 263-264.
FinishSystems ==
    /\ pc = "systemLoop" /\ idx > Len(systemsData) /\ sData = NoDoc
    /\ catalog' = [catalog EXCEPT
                     !.systems.version = maxVersion(<<catalog.systems.version, latest>>)]
    /\ written' = written \cup {Doc("systems", 0)}
    /\ systemsData' = <<>> /\ idx' = 0 /\ latest' = Undefined /\ prev' = NoPrev
    /\ pc' = "releases"
    /\ UNCHANGED <<coresData, cData, sData, releasesData, disk, badShipped, notProp>>

(***************************************************************************)
(* buildReleases: lines 273-308.                                           *)
(***************************************************************************)
\* A channel `r` is an array of version entries: an array has no property
\* called "tags" or "version" (lines 285-286 read them on `r`).
ArrayProperty(r, name) == Undefined

\* All version entries in the order of the loops of lines 280-282.
RECURSIVE Flatten(_)
Flatten(channels) ==
    IF channels = <<>> THEN <<>> ELSE Head(channels) \o Flatten(Tail(channels))

\* Line 284 over the entries of a channel.
RECURSIVE ReleasesLatest(_, _)
ReleasesLatest(latestReleasesVersion, entries) ==
    IF entries = <<>> THEN latestReleasesVersion
    ELSE ReleasesLatest(maxVersion(<<latestReleasesVersion, Head(entries).version>>),
                        Tail(entries))

\* Lines 285-287 over the entries of a channel `r`.
RECURSIVE LatestTag(_, _, _)
LatestTag(latestTagVersion, r, entries) ==
    IF entries = <<>> THEN latestTagVersion
    ELSE LatestTag(IF Includes(Coalesce(ArrayProperty(r, "tags"), Array(<<>>)), "latest")
                   THEN ArrayProperty(r, "version") ELSE latestTagVersion,
                   r, Tail(entries))

RECURSIVE LatestTagAll(_, _)
LatestTagAll(latestTagVersion, channels) ==
    IF channels = <<>> THEN latestTagVersion
    ELSE LatestTagAll(LatestTag(latestTagVersion, Head(channels), Head(channels)),
                      Tail(channels))

\* Lines 290-301 over every file of every entry.
ReleasesStamped(rd, d) ==
    [c \in 1..Len(rd) |-> [i \in 1..Len(rd[c]) |->
        [rd[c][i] EXCEPT !.files =
            [j \in 1..Len(rd[c][i].files) |-> Resign(Rehash(rd[c][i].files[j], d), d)]]]]

ReleasesReadable(rd, d) ==
    \A i \in 1..Len(Flatten(rd)) : AllReadable(Flatten(rd)[i].files, d)
ReleasesBadSig(rd, d) ==
    \E i \in 1..Len(Flatten(rd)) : AnyBadSig(Flatten(rd)[i].files, d)

\* Lines 274-307.  Line 292 or line 296 throwing leaves releases.json as
\* it was.
BuildReleases ==
    /\ pc = "releases"
    /\ \E rd \in ReleasesDocs, d \in ReleasesDisks :
         /\ disk' = d
         /\ prev' = [NoPrev EXCEPT !.sub = catalog.releases.version]
         /\ IF ~ReleasesReadable(rd, d) \/ ReleasesBadSig(rd, d)
            THEN /\ pc' = "failed"
                 /\ releasesData' = rd
                 /\ UNCHANGED <<catalog, written>>
            ELSE LET latestReleasesVersion ==
                         ReleasesLatest(Coalesce(catalog.releases.version, Zero), Flatten(rd))
                     latestTagVersion == LatestTagAll(Undefined, rd)
                 IN /\ releasesData' = ReleasesStamped(rd, d)
                    /\ catalog' = [catalog EXCEPT !.releases.version =
                          Coalesce(latestTagVersion,
                                   maxVersion(<<catalog.releases.version,
                                                latestReleasesVersion>>))]
                    /\ written' = written \cup {Doc("releases", 0)}
                    /\ pc' = "stamp"
    /\ UNCHANGED <<coresData, systemsData, idx, latest, cData, sData, badShipped, notProp>>

(***************************************************************************)
(* The stamp of catalog.json: lines 328-334.                               *)
(***************************************************************************)
Dates == {<<2026, 1, 5>>, <<2026, 11, 15>>}

RECURSIVE Decimal(_)
Decimal(n) ==
    IF n < 10 THEN <<DigitChars[n + 1]>>
    ELSE Decimal(n \div 10) \o <<DigitChars[(n % 10) + 1]>>

\* Line 333.
\* The stamp without the padding of line 333.
DateStampUnpadded(y, m, day) == Str(Decimal(y) \o Decimal(m) \o Decimal(day))

DateStamp(y, m, day) ==
    Str(Decimal(y) \o (IF m < 10 THEN <<"0">> ELSE <<>>) \o Decimal(m)
                  \o (IF day < 10 THEN <<"0">> ELSE <<>>) \o Decimal(day))

Stamp ==
    /\ pc = "stamp"
    /\ \E d \in Dates : catalog' = [catalog EXCEPT !.version = DateStamp(d[1], d[2], d[3])]
    /\ written' = written \cup {Doc("catalog", 0)}
    /\ pc' = "done"
    /\ UNCHANGED <<coresData, systemsData, idx, latest, cData, sData, releasesData, disk,
                   prev, badShipped, notProp>>

\* Lines 321-322: catalog.json as the tree transformer left it.
InitProp ==
    /\ pc = "cores"
    /\ catalog \in Catalogs
    /\ coresData = <<>> /\ systemsData = <<>>
    /\ cData = NoDoc /\ sData = NoDoc /\ releasesData = <<>>
    /\ idx = 0 /\ latest = Undefined
    /\ disk = NoDisk /\ written = {} /\ prev = NoPrev /\ badShipped = {}

NextProp ==
    \/ StartCores \/ CoreStep \/ CoreNext \/ FinishCores
    \/ StartSystems \/ SystemStep \/ SystemNext \/ FinishSystems
    \/ BuildReleases \/ Stamp

(***************************************************************************)
(* Claims about the version propagator and the integrity verifier.         *)
(***************************************************************************)
HasLatest(v) == v.tags # Undefined /\ Includes(v.tags, "latest")
ReleaseFiles ==
    {Flatten(releasesData)[i].files[j] :
        i \in 1..Len(Flatten(releasesData)), j \in {1}}
AfterReleases == pc \in {"stamp", "done"}
IsCurrent(size, sha256, a) == size = Len(a.bytes) /\ sha256 = Sha256Hex(a.bytes)

\* C3: after the releases pass over entries that all carry a numeric
\* version, with no releases version stamped before, when a version entry
\* carries the tag "latest" the releases version of the catalog is that
\* entry's version.
C3_LatestTagPinsReleasesVersion ==
    (/\ AfterReleases
     /\ prev.sub = Undefined
     /\ \A i \in 1..Len(Flatten(releasesData)) : ~ToNumber(Flatten(releasesData)[i].version).nan)
    => \A i \in 1..Len(Flatten(releasesData)) :
          LET v == Flatten(releasesData)[i]
          IN HasLatest(v) => catalog.releases.version = v.version

\* C4: the version the systems pass stamps on a system entry is never
\* lower than the version the entry carried before.
C4_SystemVersionNeverLowered ==
    (pc = "systemLoop" /\ sData # NoDoc) =>
        ~Positive(compareVersions(prev.entry, systemsData[idx].version))

\* C5: no run completes while a shipped file has a .sig that does not
\* verify.
C5_NoBadSignatureShipped == pc = "done" => badShipped = {}

\* C6: after a successful releases pass every release file has a signature
\* field exactly when its .sig exists, and the field is then the base64 of
\* the .sig bytes.
C6_SignatureFieldMatchesSigFile ==
    AfterReleases =>
        \A f \in ReleaseFiles :
            IF disk[f.url].sig.present
            THEN f.signature = Base64(disk[f.url].sig.bytes)
            ELSE f.signature = Undefined
C6_SignedAndUnsignedShipped ==
    /\ pc = "done"
    /\ \E f \in ReleaseFiles : disk[f.url].sig.present /\ f.signature # Undefined
    /\ \E f \in ReleaseFiles : ~disk[f.url].sig.present /\ f.signature = Undefined

\* C7: when a release file has a .sig that does not verify, the run has
\* failed, and neither the releases manifest nor catalog.json is rewritten.
C7_BadReleaseSignatureHalts ==
    (\E f \in ReleaseFiles :
        /\ disk[f.url].sig.present
        /\ ~Verify(disk[f.url].bytes, disk[f.url].sig.bytes))
    => /\ pc = "failed"
       /\ Doc("releases", 0) \notin written
       /\ Doc("catalog", 0) \notin written
C7_HaltedOnBadReleaseSignature ==
    /\ pc = "failed"
    /\ Len(Flatten(releasesData)) = 2
    /\ ~disk["r1"].sig.present
    /\ disk["r2"].sig.present /\ ~Verify(disk["r2"].bytes, disk["r2"].sig.bytes)
    /\ Doc("systems", 0) \in written

\* C8: every file entry of a written core document and of the written
\* releases manifest, and the gamesDb and db of a written system document,
\* carry the size and the digest of the file's bytes in the distribution.
C8_SizeAndDigestAreCurrent ==
    /\ (pc = "coreLoop" /\ cData # NoDoc) =>
         \A i \in 1..Len(cData.releases) : \A j \in 1..Len(cData.releases[i].files) :
            LET f == cData.releases[i].files[j] IN IsCurrent(f.size, f.sha256, disk[f.url])
    /\ (pc = "systemLoop" /\ sData # NoDoc) =>
         /\ Truthy(sData.gamesDb) =>
              IsCurrent(sData.gamesDb.size, sData.gamesDb.sha256, disk[sData.gamesDb.url])
         /\ Truthy(sData.db) => IsCurrent(sData.db.size, sData.db.sha256, disk[sData.db.url])
    /\ AfterReleases => \A f \in ReleaseFiles : IsCurrent(f.size, f.sha256, disk[f.url])
C8_RestampedFromDisk ==
    /\ pc = "done"
    /\ {Doc("core", 1), Doc("system", 1), Doc("releases", 0)} \subseteq written
    /\ \E f \in ReleaseFiles : f.size = Len(BytesB)
    /\ \E f \in ReleaseFiles : f.size = Len(BytesA)

(***************************************************************************)
(* The relational ingestion: part_005, `build`, lines 138-304.  A string   *)
(* is its sequence of characters.                                          *)
(***************************************************************************)
IsOpen(c) == c \in {"(", "["}
IsClose(c) == c \in {")", "]"}
IsSpace(c) == c = " "

\* The first index from `from` on whose character satisfies the test, or 0.
FirstOpen(chars, from) ==
    IF \E i \in from..Len(chars) : IsOpen(chars[i])
    THEN CHOOSE i \in from..Len(chars) :
            IsOpen(chars[i]) /\ \A j \in from..(i - 1) : ~IsOpen(chars[j])
    ELSE 0
FirstClose(chars, from) ==
    IF \E i \in from..Len(chars) : IsClose(chars[i])
    THEN CHOOSE i \in from..Len(chars) :
            IsClose(chars[i]) /\ \A j \in from..(i - 1) : ~IsClose(chars[j])
    ELSE 0

\* Lines 200, 207-209: every match of /[(\[](?<tag>.*?)[)\]]/g from `from`.
RECURSIVE TagsOfName(_, _)
TagsOfName(chars, from) ==
    LET o == FirstOpen(chars, from)
        c == IF o = 0 THEN 0 ELSE FirstClose(chars, o + 1)
    IN IF o = 0 \/ c = 0 THEN <<>>
       ELSE <<Str(SubSeq(chars, o + 1, c - 1))>> \o TagsOfName(chars, c + 1)

\* Lines 201, 204: /^(?<name>.*?)\s*[(\[]/, the shortest prefix followed by
\* white space and an opening bracket; null without a bracket.
ShortnameOfName(chars) ==
    LET o == FirstOpen(chars, 1)
    IN IF o = 0 THEN Undefined
       ELSE LET j == CHOOSE k \in 0..(o - 1) :
                        /\ \A i \in (k + 1)..(o - 1) : IsSpace(chars[i])
                        /\ \A m \in 0..(k - 1) : \E i \in (m + 1)..(o - 1) : ~IsSpace(chars[i])
            IN Str(SubSeq(chars, 1, j))

\* String.prototype.trim.
RECURSIVE TrimLeft(_)
TrimLeft(chars) ==
    IF chars # <<>> /\ IsSpace(Head(chars)) THEN TrimLeft(Tail(chars)) ELSE chars
RECURSIVE TrimRight(_)
TrimRight(chars) ==
    IF chars # <<>> /\ IsSpace(chars[Len(chars)]) THEN TrimRight(DropLast(chars)) ELSE chars
Trim(chars) == TrimRight(TrimLeft(chars))

\* String.prototype.split(',').
RECURSIVE SplitAcc(_, _)
SplitAcc(chars, cur) ==
    IF chars = <<>> THEN <<cur>>
    ELSE IF Head(chars) = "," THEN <<cur>> \o SplitAcc(Tail(chars), <<>>)
    ELSE SplitAcc(Tail(chars), Append(cur, Head(chars)))
Split(chars) == SplitAcc(chars, <<>>)

\* Array.prototype.filter on the truthy strings of a list.
RECURSIVE NonEmpty(_)
NonEmpty(list) ==
    IF list = <<>> THEN <<>>
    ELSE IF Head(list) = Undefined \/ Head(list) = Str(<<>>) THEN NonEmpty(Tail(list))
    ELSE <<Head(list)>> \o NonEmpty(Tail(list))

TrimAll(list) == [i \in 1..Len(list) |-> Str(Trim(list[i].s))]

\* Line 212: [...new Set(tags)], the first occurrences in order.
RECURSIVE Unique(_)
Unique(list) ==
    IF list = <<>> THEN <<>>
    ELSE LET init == Unique(DropLast(list))
             last == list[Len(list)]
         IN IF \E i \in 1..Len(init) : init[i] = last THEN init ELSE Append(init, last)

\* Lines 206-212.
GameTags(game) ==
    Unique(Coalesce(game.tags, Array(<<>>)).items \o TagsOfName(game.name.s, 1))
\* Line 214.
GameRegions(game) ==
    LET parts == Split(Coalesce(game.region, Str(<<>>)).s)
    IN NonEmpty(TrimAll([i \in 1..Len(parts) |-> Str(parts[i])]))
\* Lines 215-218.
GameLanguages(game) ==
    LET list == IF game.languages.t = "array" THEN game.languages.items
                ELSE <<game.languages>>
    IN NonEmpty(TrimAll(NonEmpty(list)))
\* Line 204.
GameShortname(game) == Coalesce(game.shortname, ShortnameOfName(game.name.s))

(***************************************************************************)
(* The tables of init.sql (part_005 lines 1-94) and the statements `build` *)
(* runs on them.  An INTEGER PRIMARY KEY left out of an insert is one more *)
(* than the largest id of the table.                                       *)
(***************************************************************************)
EmptyDb ==
    [Metadata |-> {}, Tags |-> {}, Regions |-> {}, Languages |-> {}, Playlists |-> {},
     SystemTags |-> {}, GamesId |-> {}, GamesTags |-> {}, GamesRegions |-> {},
     GamesLanguages |-> {}, GamesSources |-> {}, PlaylistsGamesId |-> {}]

NoId == 0
Ids(rows) == {r.id : r \in rows}
NextId(rows) == IF rows = {} THEN 1 ELSE (CHOOSE i \in Ids(rows) : \A j \in Ids(rows) : j <= i) + 1

HasName(rows, name) == \E r \in rows : r.name = name

\* A variant for a table without the UNIQUE (name) constraint.
InsertAlways(rows, name) == rows \cup {[id |-> NextId(rows), name |-> name]}

\* Lines 110-116 and 277-280 on a table with UNIQUE (name):
\* INSERT ... ON CONFLICT DO NOTHING.
InsertOrIgnore(rows, name) ==
    IF HasName(rows, name) THEN rows
    ELSE rows \cup {[id |-> NextId(rows), name |-> name]}

\* RETURNING id: the rows the statement inserted.
ReturningId(before, after) == IF after = before THEN NoId ELSE (CHOOSE r \in after \ before : TRUE).id

\* Lines 119-123 and 281-283: SELECT id ... WHERE name = ?; the first row.
SelectId(rows, name) ==
    IF HasName(rows, name) THEN (CHOOSE r \in rows : r.name = name).id ELSE NoId

\* The tables of a Promise.all of lines 233-288.
LookupTable(ph) ==
    CASE ph = "tags" -> "Tags" [] ph = "regions" -> "Regions"
      [] ph = "languages" -> "Languages" [] ph = "playlists" -> "Playlists"
LinkTable(ph) ==
    CASE ph = "tags" -> "GamesTags" [] ph = "regions" -> "GamesRegions"
      [] ph = "languages" -> "GamesLanguages" [] ph = "playlists" -> "PlaylistsGamesId"
      [] ph = "sources" -> "GamesSources"

\* UNIQUE (gamesId, <reference>) of the junction tables; GamesSources has
\* no such constraint.
LinkConflict(ph, rows, game, ref) ==
    ph # "sources" /\ \E r \in rows : r.gamesId = game /\ r.ref = ref
LinkRow(rows, game, ref) == [id |-> NextId(rows), gamesId |-> game, ref |-> ref]

\* A variant for a GamesId table without a constraint on fullname.
FullnameFree(rows, fullname) == FALSE

\* Line 43: fullname TEXT UNIQUE NOT NULL.
FullnameConflict(rows, fullname) == \E r \in rows : r.fullname = fullname

\* A variant for a connection that never left autocommit.
Autocommit(open, stored, db) == db

\* Line 146: inside BEGIN TRANSACTION a statement changes what the
\* connection sees, not what the file stores.
Persist(open, stored, db) == IF open THEN stored ELSE db

(***************************************************************************)
(* The system objects and game lists the ingestion is run on.              *)
(***************************************************************************)
S(chars) == Str(chars)
File(sha256) == [sha256 |-> sha256, size |-> 1, extension |-> S(<<"n", "e", "s">>)]
Game(name, tags, region, languages, sources, playlists) ==
    [name |-> S(name), shortname |-> Undefined, tags |-> tags, region |-> region,
     languages |-> languages, sources |-> sources, playlists |-> playlists]

Proto == S(<<"P">>)
Usa == S(<<"U">>)
English == S(<<"e">>)
Favourites == <<S(<<"f">>), 1>>

Games ==
    { Game(<<"A", " ", "(", "U", ")">>, Array(<<Proto>>), Usa, Array(<<English>>),
           Array(<<File(1)>>), Array(<<Favourites>>)),
      Game(<<"B", " ", "(", "U", ")", "[", "P", "]">>, Undefined,
           S(<<"U", ",", " ", "J">>), English, Array(<<>>), Undefined),
      Game(<<"C">>, Array(<<Proto, Proto>>), S(<<"U", ",", "U">>), Array(<<>>),
           Array(<<>>), Array(<<Favourites>>)),
      Game(<<"D", "(", "P", ")">>, Undefined, Undefined, Undefined, Undefined, Undefined),
      Game(<<"E">>, Undefined, Usa, English, Array(<<>>), Undefined) }

RECURSIVE Lists(_, _)
Lists(set, n) ==
    IF n = 0 THEN {<<>>}
    ELSE LET shorter == Lists(set, n - 1)
         IN shorter \cup {Append(l, x) : l \in {m \in shorter : Len(m) = n - 1}, x \in set}

GameLists ==
    {[version |-> v, games |-> l] :
        v \in {Undefined, S(<<"7">>)}, l \in Lists(Games, MaxGames) \ {<<>>}}

Systems ==
    {[name |-> S(<<"N">>), tags |-> t, version |-> v] :
        t \in {Undefined, Array(<<Proto>>)}, v \in {Undefined, S(<<"3">>)}}

(***************************************************************************)
(* `build`: part_005 lines 138-304.  Every awaited statement is one step;  *)
(* the callbacks of one Promise.all run their statements in any order.     *)
(***************************************************************************)
NoTasks == <<>>
Task(name, step) == [name |-> name, step |-> step, id |-> NoId]
Dispatch(names, step) == [k \in 1..Len(names) |-> Task(names[k], step)]
AllDone == \A k \in 1..Len(tasks) : tasks[k].step = "done"

\* The log of the connection: exec calls by name, inserts by the part of
\* `build` that issues them (the inserts of game n are "game", n); an event
\* equal to the last one is not repeated.
Ev(e, n) == [e |-> e, n |-> n]
Logged(log, ev) == IF log # <<>> /\ log[Len(log)] = ev THEN log ELSE Append(log, ev)
InsertEvent == IF ipc = "game" THEN Ev("game", gi) ELSE Ev(ipc, 0)

\* An insert: the connection sees `db`; the file stores it when no
\* transaction is open.
Run(db) ==
    /\ sqlDb' = db
    /\ durable' = Persist(inTx, durable, db)
    /\ events' = Logged(events, InsertEvent)

\* A loop over nothing issues no statement.
NoStatement == UNCHANGED <<sqlDb, durable, events>>

\* A rejection reaches the catch of copy (part_007 lines 82-89):
\* process.exit(1) with the transaction open.
Exit1 ==
    /\ ipc' = "exit1"
    /\ UNCHANGED <<sqlDb, durable, inTx, gi, gamesId, phase, tasks, events>>

\* Lines 143-144 have run: the schema is created, in autocommit.
InitIngest ==
    /\ ipc = "begin"
    /\ system \in Systems
    /\ gamesDb \in GameLists
    /\ sqlDb = EmptyDb /\ durable = EmptyDb /\ inTx = FALSE
    /\ gi = 0 /\ gamesId = NoId /\ phase = "none" /\ tasks = NoTasks /\ events = <<>>

\* Line 146.
Begin ==
    /\ ipc = "begin"
    /\ inTx' = TRUE
    /\ events' = Logged(events, Ev("begin", 0))
    /\ ipc' = "metadata"
    /\ UNCHANGED <<system, gamesDb, sqlDb, durable, gi, gamesId, phase, tasks, notIngest>>

\* Lines 153-163: one row per string-valued key of the system object.
StringKeys(o) == {k \in DOMAIN o : o[k].t = "string"}
InsertMetadata ==
    /\ ipc = "metadata"
    /\ IF StringKeys(system) = {} THEN NoStatement
       ELSE Run([sqlDb EXCEPT !.Metadata =
                   @ \cup {[key |-> k, value |-> system[k]] : k \in StringKeys(system)}])
    /\ ipc' = "systemTags"
    /\ UNCHANGED <<system, gamesDb, inTx, gi, gamesId, phase, tasks, notIngest>>

\* Lines 164-170, one tag after the other.
RECURSIVE WithSystemTags(_, _)
WithSystemTags(db, names) ==
    IF names = <<>> THEN db
    ELSE LET rows == InsertOrIgnore(db.Tags, Head(names))
             tagsId == IF ReturningId(db.Tags, rows) # NoId THEN ReturningId(db.Tags, rows)
                       ELSE SelectId(rows, Head(names))
         IN WithSystemTags(
                [db EXCEPT !.Tags = rows,
                           !.SystemTags = @ \cup {[id |-> NextId(@), tagsId |-> tagsId]}],
                Tail(names))
InsertSystemTags ==
    /\ ipc = "systemTags"
    /\ IF Coalesce(system.tags, Array(<<>>)).items = <<>> THEN NoStatement
       ELSE Run(WithSystemTags(sqlDb, Coalesce(system.tags, Array(<<>>)).items))
    /\ ipc' = "version"
    /\ UNCHANGED <<system, gamesDb, inTx, gi, gamesId, phase, tasks, notIngest>>

\* Lines 172-182: Metadata.key is the primary key.
InsertVersion ==
    /\ ipc = "version"
    /\ \E d \in Dates :
         LET version == Coalesce(gamesDb.version, DateStamp(d[1], d[2], d[3]))
         IN IF \E r \in sqlDb.Metadata : r.key = "version"
            THEN Exit1
            ELSE /\ Run([sqlDb EXCEPT !.Metadata = @ \cup {[key |-> "version",
                                                           value |-> version]}])
                 /\ ipc' = "game" /\ gi' = 1
                 /\ UNCHANGED <<inTx, gamesId, phase, tasks>>
    /\ UNCHANGED <<system, gamesDb, notIngest>>

\* Lines 197-239: the game's row, then its tags are dispatched.
InsertGame ==
    /\ ipc = "game" /\ phase = "none" /\ gi <= Len(gamesDb.games)
    /\ LET game == gamesDb.games[gi]
           title == GameShortname(game)
       IN IF FullnameConflict(sqlDb.GamesId, game.name)
          THEN Exit1
          ELSE /\ Run([sqlDb EXCEPT !.GamesId =
                         @ \cup {[id |-> NextId(@), fullname |-> game.name,
                                  title |-> title]}])
               /\ gamesId' = NextId(sqlDb.GamesId)
               /\ phase' = "tags"
               /\ tasks' = Dispatch(GameTags(game), "insert")
               /\ UNCHANGED <<ipc, inTx, gi>>
    /\ UNCHANGED <<system, gamesDb, notIngest>>

\* Lines 110-117 (insertTag) and 277-280 (playlists) in callback k: the
\* playlist insert has no RETURNING and always goes on to the SELECT.
TaskInsert(k) ==
    /\ ipc = "game" /\ phase \in {"tags", "regions", "languages", "playlists"}
    /\ tasks[k].step = "insert"
    /\ LET table == LookupTable(phase)
           rows == InsertOrIgnore(sqlDb[table], tasks[k].name)
           id == IF phase = "playlists" THEN NoId ELSE ReturningId(sqlDb[table], rows)
       IN /\ Run([sqlDb EXCEPT ![table] = rows])
          /\ tasks' = [tasks EXCEPT ![k].id = id,
                                    ![k].step = IF id = NoId THEN "select" ELSE "link"]
    /\ UNCHANGED <<ipc, system, gamesDb, inTx, gi, gamesId, phase, notIngest>>

\* Lines 118-128 and 281-283: without a row, reading its id throws.
TaskSelect(k) ==
    /\ ipc = "game" /\ phase \in {"tags", "regions", "languages", "playlists"}
    /\ tasks[k].step = "select"
    /\ LET id == SelectId(sqlDb[LookupTable(phase)], tasks[k].name)
       IN IF id = NoId
          THEN Exit1
          ELSE /\ tasks' = [tasks EXCEPT ![k].id = id, ![k].step = "link"]
               /\ UNCHANGED <<ipc, sqlDb, durable, inTx, gi, gamesId, phase, events>>
    /\ UNCHANGED <<system, gamesDb, notIngest>>

\* Lines 235-238, 245-248, 255-258, 266-269, 284-286: the row that links
\* the game.
TaskLink(k) ==
    /\ ipc = "game" /\ phase # "none"
    /\ tasks[k].step = "link"
    /\ LET table == LinkTable(phase)
           ref == IF phase = "sources" THEN tasks[k].name ELSE tasks[k].id
       IN IF LinkConflict(phase, sqlDb[table], gamesId, ref)
          THEN Exit1
          ELSE /\ Run([sqlDb EXCEPT ![table] = @ \cup {LinkRow(@, gamesId, ref)}])
               /\ tasks' = [tasks EXCEPT ![k].step = "done"]
               /\ UNCHANGED <<ipc, inTx, gi, gamesId, phase>>
    /\ UNCHANGED <<system, gamesDb, notIngest>>

\* The files of every source: lines 262-264.
SourceFiles(game) == game.sources.items
\* The entries of the playlists object: lines 275-276.
PlaylistNames(game) ==
    IF game.playlists = Undefined THEN <<>>
    ELSE [i \in 1..Len(game.playlists.items) |-> game.playlists.items[i][1]]

\* A Promise.all has resolved: the next one is dispatched (lines 242, 252,
\* 262, 275); `sources.map` throws when the game has no sources.
NextPhase ==
    /\ ipc = "game" /\ phase # "none" /\ AllDone
    /\ LET game == gamesDb.games[gi]
       IN CASE phase = "tags" ->
                 /\ phase' = "regions"
                 /\ tasks' = Dispatch(GameRegions(game), "insert")
                 /\ UNCHANGED <<ipc, gi, gamesId>>
            [] phase = "regions" ->
                 /\ phase' = "languages"
                 /\ tasks' = Dispatch(GameLanguages(game), "insert")
                 /\ UNCHANGED <<ipc, gi, gamesId>>
            [] phase = "languages" ->
                 IF game.sources = Undefined
                 THEN /\ ipc' = "exit1"
                      /\ UNCHANGED <<gi, gamesId, phase, tasks>>
                 ELSE /\ phase' = "sources"
                      /\ tasks' = Dispatch(SourceFiles(game), "link")
                      /\ UNCHANGED <<ipc, gi, gamesId>>
            [] phase = "sources" ->
                 /\ phase' = "playlists"
                 /\ tasks' = Dispatch(PlaylistNames(game), "insert")
                 /\ UNCHANGED <<ipc, gi, gamesId>>
            [] phase = "playlists" ->
                 /\ phase' = "none" /\ tasks' = NoTasks
                 /\ gi' = gi + 1 /\ gamesId' = NoId
                 /\ UNCHANGED ipc
    /\ UNCHANGED <<system, gamesDb, sqlDb, durable, inTx, events, notIngest>>

\* A variant that may also commit between two games.
BetweenGames == ipc = "game" /\ phase = "none"

\* Lines 197, 291-293: the loop over the games has ended.
LoopEnded == ipc = "game" /\ phase = "none" /\ gi > Len(gamesDb.games)

\* Line 293.
Commit ==
    /\ LoopEnded
    /\ durable' = sqlDb
    /\ inTx' = FALSE
    /\ events' = Logged(events, Ev("commit", 0))
    /\ ipc' = "vacuum"
    /\ UNCHANGED <<system, gamesDb, sqlDb, gi, gamesId, phase, tasks, notIngest>>

\* Line 294.
Vacuum ==
    /\ ipc = "vacuum"
    /\ events' = Logged(events, Ev("vacuum", 0))
    /\ ipc' = "close"
    /\ UNCHANGED <<system, gamesDb, sqlDb, durable, inTx, gi, gamesId, phase, tasks, notIngest>>

\* Lines 295-303.
Close ==
    /\ ipc = "close"
    /\ events' = Logged(events, Ev("close", 0))
    /\ ipc' = "closed"
    /\ UNCHANGED <<system, gamesDb, sqlDb, durable, inTx, gi, gamesId, phase, tasks, notIngest>>

NextIngest ==
    \/ Begin \/ InsertMetadata \/ InsertSystemTags \/ InsertVersion \/ InsertGame
    \/ \E k \in 1..Len(tasks) : TaskInsert(k)
    \/ \E k \in 1..Len(tasks) : TaskSelect(k)
    \/ \E k \in 1..Len(tasks) : TaskLink(k)
    \/ NextPhase \/ Commit \/ Vacuum \/ Close

(***************************************************************************)
(* Claims about the ingestion.                                             *)
(***************************************************************************)
Range(seq) == {seq[i] : i \in 1..Len(seq)}
LookupTables == {"Tags", "Regions", "Languages", "Playlists"}
UniqueNames(rows) == \A r1 \in rows, r2 \in rows : r1.name = r2.name => r1 = r2
RowsNamed(rows, name) == {r \in rows : r.name = name}
GameRow(db, game) == CHOOSE r \in db.GamesId : r.fullname = game.name
Linked(db, ph, game, name) ==
    \E row \in RowsNamed(db[LookupTable(ph)], name) :
        \E l \in db[LinkTable(ph)] : l.gamesId = GameRow(db, game).id /\ l.ref = row.id
GameNames(ph, game) ==
    CASE ph = "tags" -> Range(GameTags(game))
      [] ph = "regions" -> Range(GameRegions(game))
      [] ph = "languages" -> Range(GameLanguages(game))
      [] ph = "playlists" -> Range(PlaylistNames(game))

\* C9: at every point of every interleaving each lookup table holds at most
\* one row per name; after an ingestion every name of every game has its
\* one row, each game is linked to it, and two games sharing a tag name are
\* linked to the same Tags.id.
C9_OneRowPerName ==
    /\ \A table \in LookupTables : UniqueNames(sqlDb[table]) /\ UniqueNames(durable[table])
    /\ ipc = "closed" =>
         /\ \A game \in Range(gamesDb.games) :
              \A ph \in {"tags", "regions", "languages", "playlists"} :
                 \A name \in GameNames(ph, game) :
                    /\ Cardinality(RowsNamed(durable[LookupTable(ph)], name)) = 1
                    /\ Linked(durable, ph, game, name)
         /\ \A g1 \in Range(gamesDb.games), g2 \in Range(gamesDb.games) :
              \A name \in GameNames("tags", g1) \cap GameNames("tags", g2) :
                 \E row \in durable.Tags :
                    /\ row.name = name
                    /\ \E l \in durable.GamesTags :
                          l.gamesId = GameRow(durable, g1).id /\ l.ref = row.id
                    /\ \E l \in durable.GamesTags :
                          l.gamesId = GameRow(durable, g2).id /\ l.ref = row.id
C9_TwoGamesShareTags ==
    /\ ipc = "closed"
    /\ Len(gamesDb.games) = 2
    /\ \E l1 \in durable.GamesTags, l2 \in durable.GamesTags :
          /\ l1.gamesId # l2.gamesId /\ l1.ref = l2.ref
          /\ \E row \in durable.Tags : row.id = l1.ref /\ row.name = Proto
    /\ Cardinality(durable.Tags) = 2

\* C10: after a fatal error nothing is stored in the database file, and at
\* every point the file stores either no row at all or the whole ingestion.
C10_NothingOrEverythingStored ==
    /\ ipc = "exit1" => durable = EmptyDb
    /\ \/ durable = EmptyDb
       \/ /\ ipc \in {"vacuum", "close", "closed"}
          /\ durable = sqlDb
          /\ Cardinality(durable.GamesId) = Len(gamesDb.games)
C10_FailedInSecondGame ==
    /\ ipc = "exit1"
    /\ Cardinality(sqlDb.GamesId) = 2
    /\ sqlDb.GamesRegions # {}
    /\ durable = EmptyDb

\* What a whole ingestion asks of the connection, in order.
GameEvents(n) == [i \in 1..n |-> Ev("game", i)]
ExpectedEvents ==
    <<Ev("begin", 0)>>
    \o (IF StringKeys(system) = {} THEN <<>> ELSE <<Ev("metadata", 0)>>)
    \o (IF Coalesce(system.tags, Array(<<>>)).items = <<>> THEN <<>>
        ELSE <<Ev("systemTags", 0)>>)
    \o <<Ev("version", 0)>>
    \o GameEvents(Len(gamesDb.games))
    \o <<Ev("commit", 0), Ev("vacuum", 0), Ev("close", 0)>>

\* C11: the connection is asked to begin, then for the metadata, system
\* tag, version and per-game inserts game after game, then to commit, to
\* vacuum and to close, in this order: the log is always a prefix of that
\* sequence and is the whole of it when the database is closed; the commit
\* finds every callback of the last game done.
C11_EventsInOrder ==
    ipc # "idle" =>
        /\ IsPrefix(events, ExpectedEvents)
        /\ ipc = "closed" => events = ExpectedEvents
        /\ ipc \in {"vacuum", "close", "closed"} => AllDone /\ ~inTx
C11_TwoGamesIngested ==
    /\ ipc = "closed"
    /\ Len(gamesDb.games) = 2
    /\ Len(events) = 9
    /\ sqlDb.GamesTags # {} /\ sqlDb.PlaylistsGamesId # {}

SameNameTwice ==
    \E i \in 1..Len(gamesDb.games), j \in 1..Len(gamesDb.games) :
        i < j /\ gamesDb.games[i].name = gamesDb.games[j].name

\* C12: a game list that holds the same name twice is never committed, and
\* nothing of it is stored in the database file.
C12_DuplicateNameNeverIngested ==
    (ipc # "idle" /\ SameNameTwice) =>
        /\ ipc \notin {"vacuum", "close", "closed"}
        /\ durable = EmptyDb
C12_SecondInsertFailed ==
    /\ ipc = "exit1" /\ SameNameTwice
    /\ gi = 2 /\ phase = "none"
    /\ Cardinality(sqlDb.GamesId) = 1 /\ sqlDb.GamesSources # {}

\* A main that does not await copy('.').
ReadCatalogUnawaited ==
    /\ cstatus \in {"running", "copied"} /\ pc = "idle"
    /\ pc' = "cores"
    /\ catalog' \in Catalogs
    /\ UNCHANGED <<copyVars, coresData, systemsData, idx, latest, cData, sData,
                   releasesData, disk, written, prev, badShipped, ingestVars,
                   versionVars, twiceVars>>

\* Lines 318-322: copy('.') has returned; main reads dist/catalog.json and
\* goes on to the three passes.
ReadCatalog ==
    /\ cstatus = "copied" /\ pc = "idle"
    /\ pc' = "cores"
    /\ catalog' \in Catalogs
    /\ UNCHANGED <<copyVars, coresData, systemsData, idx, latest, cData, sData,
                   releasesData, disk, written, prev, badShipped, ingestVars,
                   versionVars, twiceVars>>

NextMain ==
    \/ NextCopy
    \/ ReadCatalog

\* An override threw, or a copy it had asked for did.
OverrideThrew ==
    \/ failure.kind = "override"
    \/ failure # NoFailure /\ Overrides # {}

\* C14: once a build override has thrown (an error of a copy it requested
\* included) the build has exited: the catalog was never read, no pass of
\* the propagator has started, catalog.json is not restamped, and no step
\* follows, so no further file is copied.
C14_OverrideThrowStopsTheBuild ==
    /\ [](OverrideThrew => cstatus = "failed" /\ pc = "idle" /\ catalog = NoDoc)
    /\ [][~OverrideThrew]_vars
C14_ThrewWithWorkLeft ==
    /\ cstatus = "failed" /\ failure.kind = "override" /\ pc = "idle"
    /\ Len(stack) >= 2 /\ stack[1].kind = "dir" /\ stack[1].pending # {}
    /\ Top.wrote
C14_CopyInsideOverrideFailed ==
    /\ cstatus = "failed" /\ failure.kind = "io" /\ Overrides # {} /\ pc = "idle"

\* The prefix of a name before its first parenthesis or bracket group,
\* without trailing white space: the whole name when it has no group.
PrefixBeforeGroup(chars) ==
    LET o == FirstOpen(chars, 1)
    IN IF o = 0 THEN TrimRight(chars) ELSE TrimRight(SubSeq(chars, 1, o - 1))
GroupsAndTags(game) ==
    Range(Coalesce(game.tags, Array(<<>>)).items) \cup Range(TagsOfName(game.name.s, 1))
TagLinks(db, game) == {l \in db.GamesTags : l.gamesId = GameRow(db, game).id}

\* C19: after an ingestion every game (none has an explicit shortname) has
\* for title the prefix of its name before the first group, and one
\* GamesTags row for each distinct tag among its explicit tags and the
\* contents of the groups of its name.
C19_TitleAndTagsFromName ==
    ipc = "closed" =>
        \A game \in Range(gamesDb.games) :
            /\ GameRow(durable, game).title = Str(PrefixBeforeGroup(game.name.s))
            /\ Cardinality(TagLinks(durable, game)) = Cardinality(GroupsAndTags(game))
            /\ \A name \in GroupsAndTags(game) : Linked(durable, "tags", game, name)

\* C20: the ingestion never fails in a statement that stores a region or
\* a language of a game, and after an ingestion every trimmed non-blank
\* region and language of every game is a membership of that game.
C20_RegionsAndLanguagesStored ==
    /\ ~(ipc = "exit1" /\ phase \in {"regions", "languages"} /\ ~AllDone)
    /\ ipc = "closed" =>
          \A game \in Range(gamesDb.games) :
              \A ph \in {"regions", "languages"} :
                  \A name \in GameNames(ph, game) : Linked(durable, ph, game, name)

(***************************************************************************)
(* compareVersions and maxVersion as functions: part_007 lines 173-182.    *)
(* The arguments are version strings as the documents hold them, a string  *)
(* that is no number, and an absent field.                                 *)
(***************************************************************************)
VersionValues ==
    {Str(<<"1">>), Str(<<"0", "1">>), Str(<<"2">>), Str(<<"x">>), Undefined}
VersionLists == UNION {[1..n -> VersionValues] : n \in 1..MaxList}

\* Neither function has a throw statement, and unary plus, minus, `>` and
\* reduce over a non-empty array do not throw on strings and undefined.
Returned(v) == [threw |-> FALSE, value |-> v]
NoOutcome == [threw |-> FALSE, value |-> [t |-> "none"]]

InitVersions ==
    /\ vpc = "input"
    /\ vlist \in VersionLists
    /\ outcome = NoOutcome /\ permuted = <<>> /\ again = NoOutcome

\* Line 174, on the first two elements.
CallCompare ==
    /\ vpc = "input" /\ Len(vlist) >= 2
    /\ outcome' = Returned(compareVersions(vlist[1], vlist[2]))
    /\ vpc' = "compared"
    /\ UNCHANGED <<vlist, permuted, again, notVersions>>

\* Line 181.
CallMaxVersion ==
    /\ vpc = "input"
    /\ outcome' = Returned(maxVersion(vlist))
    /\ vpc' = "folded"
    /\ UNCHANGED <<vlist, permuted, again, notVersions>>

\* Line 181 again, on the same elements in another order.
CallMaxVersionPermuted ==
    /\ vpc = "folded"
    /\ \E p \in Permutations(1..Len(vlist)) :
         /\ permuted' = [i \in 1..Len(vlist) |-> vlist[p[i]]]
         /\ again' = Returned(maxVersion(permuted'))
    /\ vpc' = "permuted"
    /\ UNCHANGED <<vlist, outcome, notVersions>>

NextVersions ==
    \/ CallCompare
    \/ CallMaxVersion
    \/ CallMaxVersionPermuted

\* C16: maxVersion returns the same value for every permutation of a
\* non-empty list.
C16_MaxIsOrderIndependent ==
    vpc = "permuted" => again = outcome

NotNumeric(v) == ToNumber(v).nan

\* C17: a comparison with a non-numeric or absent operand, and a fold that
\* makes one, ends in an error.
C17_NonNumericIsAnError ==
    /\ (vpc = "compared" /\ (NotNumeric(vlist[1]) \/ NotNumeric(vlist[2])))
          => outcome.threw
    /\ (vpc = "folded" /\ Len(vlist) >= 2 /\ \E i \in 1..Len(vlist) : NotNumeric(vlist[i]))
          => outcome.threw

(***************************************************************************)
(* The three passes as functions of a whole tree (lines 189-308), run      *)
(* twice in a row (lines 324-326) with no file changed in between.  What   *)
(* JSON.stringify writes and JSON.parse reads back is the same value; a    *)
(* field set to undefined is dropped and reads back as undefined.          *)
(***************************************************************************)
\* Lines 194-214 for one core `c`: its entry, its document, its artifacts.
CoreVersion(c) == CoreLatest(Coalesce(c.entry.version, Zero), c.doc.releases)
CoreBuilt(c) ==
    [c EXCEPT !.entry.version = CoreVersion(c), !.doc = CoreRehashed(c.doc, c.disk)]

\* Lines 231-260 for one system `s`.
SystemVersion(s) ==
    GamesDbVersion(s.doc, maxVersion(<<s.entry.version, s.doc.version, Zero>>))
SystemBuilt(s) ==
    [s EXCEPT !.entry.version = SystemVersion(s),
              !.doc = [DbStamped(GamesDbStamped(s.doc, s.disk), s.disk)
                          EXCEPT !.version = SystemVersion(s)]]

\* Lines 213 and 258 over the entries, in order.
RECURSIVE LatestOfEntries(_, _)
LatestOfEntries(latestVersion, entries) ==
    IF entries = <<>> THEN latestVersion
    ELSE LatestOfEntries(maxVersion(<<latestVersion, Head(entries).entry.version>>),
                         Tail(entries))

\* Lines 189-218.
buildCores(t) ==
    LET cores == [i \in 1..Len(t.cores) |-> CoreBuilt(t.cores[i])]
        latestCoresVersion ==
            LatestOfEntries(Coalesce(t.catalog.cores.version, Zero), cores)
    IN [t EXCEPT !.cores = cores,
                 !.catalog.cores.version =
                     maxVersion(<<t.catalog.cores.version, latestCoresVersion>>)]

\* Lines 226-265.
buildSystems(t) ==
    LET systems == [i \in 1..Len(t.systems) |-> SystemBuilt(t.systems[i])]
        latestSystemsVersion ==
            LatestOfEntries(Coalesce(OwnVersion(t.systems), Zero), systems)
    IN [t EXCEPT !.systems = systems,
                 !.catalog.systems.version =
                     maxVersion(<<t.catalog.systems.version, latestSystemsVersion>>)]

\* Lines 273-308.
buildReleases(t) ==
    LET rd == t.releases.doc
        latestReleasesVersion ==
            ReleasesLatest(Coalesce(t.catalog.releases.version, Zero), Flatten(rd))
        latestTagVersion == LatestTagAll(Undefined, rd)
    IN [t EXCEPT !.releases.doc = ReleasesStamped(rd, t.releases.disk),
                 !.catalog.releases.version =
                     Coalesce(latestTagVersion,
                              maxVersion(<<t.catalog.releases.version,
                                           latestReleasesVersion>>))]

\* The trees: every artifact is there and every .sig verifies, so that the
\* first run completes.  One pass at a time has something to work on.
TwiceVersions == Versions \cup {Str(<<"0", "1">>), Str(<<"x">>)}
\* The system documents, and the same with a db stamped newer than anything.
TwiceSystemDocs ==
    SystemDocs \cup {[sd EXCEPT !.db.version = Str(<<"9">>)] : sd \in {x \in SystemDocs : Truthy(x.db)}}
CoreArtifacts == ("f1" :> Unsigned(BytesA)) @@ ("f2" :> Unsigned(BytesB))
SystemArtifacts == ("g" :> Unsigned(BytesA)) @@ ("db" :> Unsigned(BytesB))
ReleaseArtifacts ==
    {("r1" :> a) @@ ("r2" :> WellSigned(BytesB)) : a \in {Unsigned(BytesA), WellSigned(BytesA)}}
OnDisk(V, docs, d) == {[entry |-> [version |-> v], doc |-> y, disk |-> d] : v \in V, y \in docs}
OneOrTwo(A, B) == {<<a>> : a \in A} \cup {<<a, b>> : a \in A, b \in B}
NoEntries == <<>>
NoReleases == [doc |-> <<>>, disk |-> <<>>]
Trees ==
    {[catalog |-> Catalog(v, Undefined, Undefined), cores |-> cs, systems |-> NoEntries,
      releases |-> NoReleases] :
        v \in TwiceVersions,
        cs \in OneOrTwo(OnDisk(TwiceVersions, CoreDocs, CoreArtifacts),
                        OnDisk({Undefined, Str(<<"1">>)},
                               {cd \in CoreDocs : Len(cd.releases) = 1}, CoreArtifacts))}
    \cup
    {[catalog |-> Catalog(Undefined, v, Undefined), cores |-> NoEntries, systems |-> ss,
      releases |-> NoReleases] :
        v \in TwiceVersions,
        ss \in OneOrTwo(OnDisk(TwiceVersions, TwiceSystemDocs, SystemArtifacts),
                        OnDisk({Undefined, Str(<<"1">>)},
                               {sd \in SystemDocs : ~Truthy(sd.db)}, SystemArtifacts))}
    \cup
    {[catalog |-> Catalog(Undefined, Undefined, v), cores |-> NoEntries, systems |-> NoEntries,
      releases |-> [doc |-> rd, disk |-> d]] :
        v \in TwiceVersions, rd \in ReleasesDocs, d \in ReleaseArtifacts}

NoTree == [none |-> TRUE]

InitTwice ==
    /\ tpc = "cores" /\ run = 1
    /\ tree \in Trees
    /\ first = NoTree

\* Line 324.
PassCores ==
    /\ tpc = "cores"
    /\ tree' = buildCores(tree)
    /\ tpc' = "systems"
    /\ UNCHANGED <<run, first, notTwice>>

\* Line 325.
PassSystems ==
    /\ tpc = "systems"
    /\ tree' = buildSystems(tree)
    /\ tpc' = "releases"
    /\ UNCHANGED <<run, first, notTwice>>

\* Line 326; after the first run the passes are started again.
PassReleases ==
    /\ tpc = "releases"
    /\ tree' = buildReleases(tree)
    /\ IF run = 1
       THEN first' = tree' /\ run' = 2 /\ tpc' = "cores"
       ELSE first' = first /\ run' = run /\ tpc' = "done"
    /\ UNCHANGED notTwice

NextTwice ==
    \/ PassCores
    \/ PassSystems
    \/ PassReleases

\* C18: a second run of the three passes on the tree the first run
\* produced leaves every manifest (sizes, digests, signatures, versions)
\* and the three nested versions of the catalog as the first run left
\* them; this holds after each pass of the second run for what that pass
\* writes.
C18_SecondRunChangesNothing ==
    run = 2 =>
        /\ tpc \in {"systems", "releases", "done"} =>
              /\ tree.cores = first.cores
              /\ tree.catalog.cores = first.catalog.cores
        /\ tpc \in {"releases", "done"} =>
              /\ tree.systems = first.systems
              /\ tree.catalog.systems = first.catalog.systems
        /\ tpc = "done" => tree = first
C18_RanTwiceOnTwoCores ==
    /\ tpc = "done" /\ run = 2 /\ Len(tree.cores) = 2
    /\ tree.catalog.cores.version = Str(<<"2">>)
    /\ first.cores[1].entry.version = Str(<<"1">>)
    /\ tree.cores[1].doc.releases[2].files[2].size = Len(BytesB)

\* The number a version stands for, an absent one counting as "0".
NumberOf(v) == ToNumber(Coalesce(v, Zero)).n
Largest(numbers) == CHOOSE n \in numbers : \A m \in numbers : m <= n
AbsentOrNumeric(v) == v = Undefined \/ ~NotNumeric(v)
ReleaseVersions(c) == {c.doc.releases[j].version : j \in 1..Len(c.doc.releases)}
CoresAreNumeric(t) ==
    /\ AbsentOrNumeric(t.catalog.cores.version)
    /\ \A i \in 1..Len(t.cores) :
          /\ AbsentOrNumeric(t.cores[i].entry.version)
          /\ \A v \in ReleaseVersions(t.cores[i]) : v # Undefined /\ ~NotNumeric(v)

\* C21: a cores pass over releases that all carry a numeric version, the
\* versions stamped before being numeric or absent, leaves in each core
\* entry the numeric maximum of its former version and its releases'
\* versions, and in catalog.cores.version the maximum of its former value
\* and every core's new version.
C21_CoresVersionsAreMaxima ==
    [][(tpc = "cores" /\ CoresAreNumeric(tree)) =>
          /\ \A i \in 1..Len(tree.cores) :
                /\ ~NotNumeric(tree'.cores[i].entry.version)
                /\ NumberOf(tree'.cores[i].entry.version) =
                      Largest({NumberOf(tree.cores[i].entry.version)}
                              \cup {NumberOf(v) : v \in ReleaseVersions(tree.cores[i])})
          /\ ~NotNumeric(tree'.catalog.cores.version)
          /\ NumberOf(tree'.catalog.cores.version) =
                Largest({NumberOf(tree.catalog.cores.version)}
                        \cup {NumberOf(tree'.cores[i].entry.version) :
                                  i \in 1..Len(tree.cores)})]_vars
C21_TwoCoresStamped ==
    /\ tpc = "systems" /\ run = 1 /\ Len(tree.cores) = 2
    /\ \A i \in 1..2 : \A v \in ReleaseVersions(tree.cores[i]) : v # Undefined /\ ~NotNumeric(v)
    /\ Len(tree.cores[1].doc.releases) = 2
    /\ tree.cores[1].doc.releases[1].version = Str(<<"2">>)
    /\ tree.cores[1].doc.releases[2].version = Str(<<"1">>)
    /\ tree.cores[1].entry.version = Str(<<"2">>)
    /\ tree.cores[2].entry.version = Str(<<"1">>)
    /\ tree.catalog.cores.version = Str(<<"2">>)

\* The tree with the db of every system document taken away.
WithoutDb(t) ==
    [t EXCEPT !.systems = [i \in 1..Len(t.systems) |-> [t.systems[i] EXCEPT !.doc.db = Absent]]]

\* C22: a systems pass gives every system entry, every system document
\* and catalog.systems.version the version it gives them on the same tree
\* without the db artifacts; of a db it rewrites size and sha256 only.
C22_DbNeverCountsAsVersion ==
    [][tpc = "systems" =>
          LET without == buildSystems(WithoutDb(tree)) IN
          /\ tree'.catalog = without.catalog
          /\ \A i \in 1..Len(tree.systems) :
                LET before == tree.systems[i].doc.db
                    bytes == tree.systems[i].disk["db"].bytes
                IN /\ tree'.systems[i].entry = without.systems[i].entry
                   /\ tree'.systems[i].doc.version = without.systems[i].doc.version
                   /\ tree'.systems[i].doc.gamesDb = without.systems[i].doc.gamesDb
                   /\ tree'.systems[i].doc.db =
                         IF Truthy(before)
                         THEN [before EXCEPT !.size = Len(bytes), !.sha256 = Sha256Hex(bytes)]
                         ELSE before]_vars
C22_NewerDbLeftVersionAlone ==
    /\ tpc = "releases" /\ run = 1 /\ Len(tree.systems) = 2
    /\ Truthy(tree.systems[1].doc.db)
    /\ tree.systems[1].doc.db.version = Str(<<"9">>)
    /\ tree.systems[1].doc.db.size = Len(BytesB)
    /\ tree.systems[1].entry.version = Str(<<"2">>)
    /\ tree.catalog.systems.version = Str(<<"2">>)

\* The files a step wrote: new ones and ones whose node changed.
FilesWritten(before, after) ==
    {q \in DOMAIN after :
        after[q].kind = "file" /\ (q \notin DOMAIN before \/ before[q] # after[q])}
ReplaceExtension(n, e) == DropLast(n) \o <<e>>

C28_OneMetadataRowPerKey ==
    /\ ipc = "closed" =>
          /\ \A k \in StringKeys(system) \cup {"version"} :
                Cardinality({r \in durable.Metadata : r.key = k}) = 1
          /\ \A r \in durable.Metadata :
                r.key = "version" =>
                    \/ r.value = gamesDb.version
                    \/ gamesDb.version = Undefined
                       /\ \E d \in Dates : r.value = DateStamp(d[1], d[2], d[3])
    /\ ~(ipc = "exit1" /\ gi = 0 /\ system.version # Undefined)

\* C25: the root version of a finished run is the build date as eight
\* digits, four of the year, two of the month, two of the day, whatever the
\* versions of cores, systems and releases are.
C25_RootVersionIsBuildDate ==
    pc = "done" =>
        /\ catalog.version.t = "string"
        /\ Len(catalog.version.s) = 8
        /\ \A i \in 1..8 : IsDigit(catalog.version.s[i])
        /\ \E d \in Dates :
              /\ DigitsValue(SubSeq(catalog.version.s, 1, 4)) = d[1]
              /\ DigitsValue(SubSeq(catalog.version.s, 5, 6)) = d[2]
              /\ DigitsValue(SubSeq(catalog.version.s, 7, 8)) = d[3]
C25_StampedBelowCores ==
    /\ pc = "done"
    /\ catalog.cores.version = LaterStamp
    /\ compareVersions(catalog.version, catalog.cores.version).n < 0
    /\ catalog.version.s[5] = "0" /\ catalog.version.s[7] = "0"

(***************************************************************************)
(* The whole build: main (part_007 lines 310-334) on a tree whose          *)
(* subdirectory holds the override of part_005.  That override copies its  *)
(* game list (line 140), opens the database in its destination (line 142), *)
(* ingests, closes and returns; `s` stands for the list and db.zip for the *)
(* database file.                                                          *)
(***************************************************************************)
BuildTree == Put(BaseTree, Append(SubDir, BuildJs), FileNode(Text("js", "build")))
BuildSystem == [name |-> S(<<"N">>), tags |-> Array(<<Proto>>), version |-> Undefined]
BuildGameLists ==
    {l \in GameLists :
        /\ l.version = Undefined /\ Len(l.games) = 1
        /\ l.games[1].name \in {S(<<"A", " ", "(", "U", ")">>), S(<<"D", "(", "P", ")">>)}}

InitBuild ==
    /\ fs = BuildTree
    /\ stack = <<>>
    /\ call = Call(RelP(<<>>), NoDest)
    /\ reads = {}
    /\ cstatus = "running"
    /\ failure = NoFailure

\* part_005 line 140: await copy('nes.json').
OverrideCopiesList ==
    /\ ipc = "idle" /\ cstatus = "running" /\ stack # <<>> /\ Top.ops = 0
    /\ OverrideCopy
    /\ call' = CopyFn(Top, RelP(<<N("s")>>), NoDest)

\* part_005 line 142: the database file is created in the destination.
OverrideOpensDb ==
    /\ ipc = "idle" /\ cstatus = "running" /\ stack # <<>> /\ Top.ops = 1
    /\ OverrideWrite

\* part_005 lines 143-172: init.sql has run, the two documents are read.
OverrideIngests ==
    /\ cstatus = "running" /\ ~call.active /\ stack # <<>>
    /\ Top.kind = "override" /\ Top.wrote
    /\ ipc = "idle"
    /\ ipc' = "begin"
    /\ system' = BuildSystem
    /\ gamesDb' \in BuildGameLists
    /\ UNCHANGED <<sqlDb, durable, inTx, gi, gamesId, phase, tasks, events,
                   copyVars, propVars, versionVars, twiceVars>>

\* part_005 line 304: `build` returns after the close.
OverrideReturnsClosed ==
    /\ ipc = "closed"
    /\ OverrideReturn

\* part_005 rejected: the catch of part_007 lines 84-86 exits.
OverrideRejected ==
    /\ ipc = "exit1"
    /\ OverrideThrow

NextBuild ==
    \/ CopyEnter \/ DirNext \/ CopyReturn
    \/ OverrideCopiesList \/ OverrideOpensDb \/ OverrideIngests
    \/ OverrideReturnsClosed \/ OverrideRejected
    \/ NextIngest
    \/ ReadCatalog
    \/ NextProp

Wrote(name) == Doc(name, 0) \in written

\* C24: no pass starts before copy('.') has returned, every override with
\* it and the database closed; the passes write cores.json, systems.json
\* and the releases document in that order; catalog.json is written after
\* the three, once, with the root version, and not at all when a pass
\* failed.
C24_StepsInOrder ==
    /\ [](/\ pc # "idle" =>
                /\ cstatus = "copied" /\ stack = <<>> /\ ~call.active
                /\ ipc = "closed" /\ ~inTx
          /\ pc \in {"cores", "coreLoop"} =>
                ~Wrote("cores") /\ ~Wrote("systems") /\ ~Wrote("releases")
          /\ pc \in {"systems", "systemLoop"} =>
                Wrote("cores") /\ ~Wrote("systems") /\ ~Wrote("releases")
          /\ pc = "releases" => Wrote("cores") /\ Wrote("systems") /\ ~Wrote("releases")
          /\ pc \in {"stamp", "done"} => Wrote("cores") /\ Wrote("systems") /\ Wrote("releases")
          /\ Wrote("catalog") <=> pc = "done"
          /\ catalog # NoDoc => (catalog.version # Undefined <=> pc = "done"))
    /\ [][~Wrote("catalog")]_vars
C24_BuiltAfterIngestion ==
    /\ pc = "done" /\ Wrote("catalog") /\ cstatus = "copied"
    /\ ipc = "closed" /\ durable.GamesId # {}
    /\ DIST_ROOT \o <<N("d"), OverrideOutput>> \in DOMAIN fs
C24_PassFailedAfterIngestion ==
    /\ pc = "failed" /\ ~Wrote("catalog") /\ Wrote("cores") /\ ipc = "closed"

(***************************************************************************)
(* The specifications.                                                     *)
(***************************************************************************)
IdleCopy ==
    /\ fs = BaseTree /\ stack = <<>> /\ call = NoCall /\ reads = {}
    /\ cstatus = "idle" /\ failure = NoFailure
IdleProp ==
    /\ pc = "idle" /\ catalog = NoDoc
    /\ coresData = <<>> /\ systemsData = <<>>
    /\ cData = NoDoc /\ sData = NoDoc /\ releasesData = <<>>
    /\ idx = 0 /\ latest = Undefined
    /\ disk = NoDisk /\ written = {} /\ prev = NoPrev /\ badShipped = {}

IdleVersions ==
    /\ vpc = "idle" /\ vlist = <<>>
    /\ outcome = NoOutcome /\ permuted = <<>> /\ again = NoOutcome

IdleTwice == tpc = "idle" /\ run = 0 /\ tree = NoTree /\ first = NoTree

IdleIngest ==
    /\ ipc = "idle" /\ system = NoDoc /\ gamesDb = NoDoc
    /\ sqlDb = EmptyDb /\ durable = EmptyDb /\ inTx = FALSE
    /\ gi = 0 /\ gamesId = NoId /\ phase = "none" /\ tasks = NoTasks /\ events = <<>>

\* The tree transformer alone: `await copy('.')`, line 318.
CopyInit == InitCopy /\ IdleProp /\ IdleIngest /\ IdleVersions /\ IdleTwice
SpecCopy == CopyInit /\ [][NextMain]_vars

\* The propagator alone: lines 321-334.
PropInit == InitProp /\ IdleCopy /\ IdleIngest /\ IdleVersions /\ IdleTwice
SpecProp == PropInit /\ [][NextProp]_vars

\* The ingestion alone: part_005, `build`.
IngestInit == InitIngest /\ IdleCopy /\ IdleProp /\ IdleVersions /\ IdleTwice
SpecIngest == IngestInit /\ [][NextIngest]_vars


\* The two version functions alone: lines 173-182.
VersionsInit == InitVersions /\ IdleCopy /\ IdleProp /\ IdleIngest /\ IdleTwice
SpecVersions == VersionsInit /\ [][NextVersions]_vars

\* The three passes twice: lines 324-326 and again.
TwiceInit == InitTwice /\ IdleCopy /\ IdleProp /\ IdleIngest /\ IdleVersions
SpecTwice == TwiceInit /\ [][NextTwice]_vars

\* The whole build: main with the override of part_005.
BuildInit == InitBuild /\ IdleProp /\ IdleIngest /\ IdleVersions /\ IdleTwice
SpecBuild == BuildInit /\ [][NextBuild]_vars

====
